---- MODULE Spec2Model ----
(***************************************************************************)
(* Model of the patch migration orchestrator, tools/migrate/migrate.py.    *)
(*                                                                         *)
(* A Python str is a sequence of one-character strings, so that strip,     *)
(* splitlines, the entity regular expression, the ".yaml" suffix test and  *)
(* the code-point ordering used by sorted() are computed, not assumed.     *)
(* A pathlib.Path is a sequence of components (each a str).                *)
(***************************************************************************)
EXTENDS Integers, Sequences, FiniteSets, TLC

(***************************************************************************)
(* Bounds of the model.                                                    *)
(***************************************************************************)
\* the largest number of files the patch directory tree holds
MaxFiles == 2

(***************************************************************************)
(* Python str primitives.                                                  *)
(***************************************************************************)
\* printable ASCII in code-point order, from 32 (space) to 95 (underscore)
AsciiLow ==
    << " ", "!", "\"", "#", "$", "%", "&", "'", "(", ")", "*", "+", ",", "-", ".", "/",
       "0", "1", "2", "3", "4", "5", "6", "7", "8", "9", ":", ";", "<", "=", ">", "?",
       "@", "A", "B", "C", "D", "E", "F", "G", "H", "I", "J", "K", "L", "M", "N", "O",
       "P", "Q", "R", "S", "T", "U", "V", "W", "X", "Y", "Z", "[", "\\", "]", "^", "_" >>

\* printable ASCII in code-point order, from 97 (a) to 126 (tilde)
AsciiHigh ==
    << "a", "b", "c", "d", "e", "f", "g", "h", "i", "j", "k", "l", "m", "n", "o",
       "p", "q", "r", "s", "t", "u", "v", "w", "x", "y", "z", "{", "|", "}", "~" >>

\* ord(c)
Ord(c) ==
    IF c = "\t" THEN 9
    ELSE IF c = "\n" THEN 10
    ELSE IF c = "\r" THEN 13
    ELSE IF \E k \in 1..Len(AsciiLow) : AsciiLow[k] = c
        THEN 31 + (CHOOSE k \in 1..Len(AsciiLow) : AsciiLow[k] = c)
    ELSE 96 + (CHOOSE k \in 1..Len(AsciiHigh) : AsciiHigh[k] = c)

\* a < b on str: lexicographic by code point, a proper prefix is smaller
RECURSIVE StrLess(_, _)
StrLess(a, b) ==
    IF b = <<>> THEN FALSE
    ELSE IF a = <<>> THEN TRUE
    ELSE IF Head(a) = Head(b) THEN StrLess(Tail(a), Tail(b))
    ELSE Ord(Head(a)) < Ord(Head(b))

\* s.startswith(p)
StartsWith(s, p) ==
    /\ Len(p) <= Len(s)
    /\ SubSeq(s, 1, Len(p)) = p

\* s.endswith(p)
EndsWith(s, p) ==
    /\ Len(p) <= Len(s)
    /\ SubSeq(s, Len(s) - Len(p) + 1, Len(s)) = p

\* sub in s
Contains(s, sub) ==
    \E k \in 0..(Len(s) - Len(sub)) : SubSeq(s, k + 1, k + Len(sub)) = sub

\* the characters str.strip() removes
Whitespace == {" ", "\t", "\n", "\r"}

RECURSIVE LStrip(_)
LStrip(s) ==
    IF s # <<>> /\ Head(s) \in Whitespace THEN LStrip(Tail(s)) ELSE s

RECURSIVE RStrip(_)
RStrip(s) ==
    IF s # <<>> /\ s[Len(s)] \in Whitespace THEN RStrip(SubSeq(s, 1, Len(s) - 1)) ELSE s

\* s.strip()
Strip(s) == RStrip(LStrip(s))

\* c.lower()
LowerChar(c) ==
    IF c \in Whitespace THEN c
    ELSE IF Ord(c) >= 65 /\ Ord(c) <= 90 THEN AsciiHigh[Ord(c) - 64]
    ELSE c

\* s.lower()
Lower(s) == [k \in 1..Len(s) |-> LowerChar(s[k])]

\* s.splitlines(): split at \n, \r and \r\n, no empty last line
RECURSIVE SplitFrom(_, _, _)
SplitFrom(s, cur, keepends) ==
    IF s = <<>> THEN (IF cur = <<>> THEN <<>> ELSE <<cur>>)
    ELSE IF Head(s) = "\r" /\ Len(s) >= 2 /\ s[2] = "\n"
        THEN <<(IF keepends THEN cur \o <<"\r", "\n">> ELSE cur)>>
             \o SplitFrom(Tail(Tail(s)), <<>>, keepends)
    ELSE IF Head(s) \in {"\n", "\r"}
        THEN <<(IF keepends THEN Append(cur, Head(s)) ELSE cur)>>
             \o SplitFrom(Tail(s), <<>>, keepends)
    ELSE SplitFrom(Tail(s), Append(cur, Head(s)), keepends)

SplitLines(s) == SplitFrom(s, <<>>, FALSE)

\* sep.join(parts)
RECURSIVE Join(_, _)
Join(parts, sep) ==
    IF parts = <<>> THEN <<>>
    ELSE IF Len(parts) = 1 THEN parts[1]
    ELSE parts[1] \o sep \o Join(Tail(parts), sep)

\* line.partition("="): <<before, sep, after>> at the first "="
RECURSIVE PartitionFrom(_, _, _)
PartitionFrom(s, before, ch) ==
    IF s = <<>> THEN <<before, <<>>, <<>>>>
    ELSE IF Head(s) = ch THEN <<before, <<ch>>, Tail(s)>>
    ELSE PartitionFrom(Tail(s), Append(before, Head(s)), ch)

Partition(s, ch) == PartitionFrom(s, <<>>, ch)

(***************************************************************************)
(* String literals of the program.                                         *)
(***************************************************************************)
S_apply ==
    <<"a", "p", "p", "l", "y">>
S_sync ==
    <<"s", "y", "n", "c">>
S_path_opt ==
    <<"-", "-", "p", "a", "t", "h">>
S_dry_run_opt ==
    <<"-", "-", "d", "r", "y", "-", "r", "u", "n">>
S_config_opt ==
    <<"-", "-", "c", "o", "n", "f", "i", "g">>
S_e_opt ==
    <<"-", "e">>
S_yaml ==
    <<".", "y", "a", "m", "l">>
S_reforged ==
    <<"r", "e", "f", "o", "r", "g", "e", "d">>
S_references ==
    <<".", "r", "e", "f", "e", "r", "e", "n", "c", "e", "s">>
S_specs ==
    <<"s", "p", "e", "c", "s">>
S_patches ==
    <<"p", "a", "t", "c", "h", "e", "s">>
S_config ==
    <<"c", "o", "n", "f", "i", "g">>
S_sync_config_yaml ==
    <<"s", "y", "n", "c", "-", "c", "o", "n", "f", "i", "g", ".", "y", "a", "m", "l">>
S_dsl_exe ==
    <<"d", "s", "l", ".", "e", "x", "e">>
S_dsl_cli ==
    <<"d", "s", "l", "_", "c", "l", "i">>
S_server_datasheet ==
    <<"s", "e", "r", "v", "e", "r", "_", "d", "a", "t", "a", "s", "h", "e", "e", "t">>
S_Unknown_error ==
    <<"U", "n", "k", "n", "o", "w", "n", " ", "e", "r", "r", "o", "r">>
S_Applied ==
    <<"A", "p", "p", "l", "i", "e", "d">>
S_operations ==
    <<"o", "p", "e", "r", "a", "t", "i", "o", "n", "s">>
K_items ==
    <<"i", "t", "e", "m", "s">>
K_equipment ==
    <<"e", "q", "u", "i", "p", "m", "e", "n", "t">>
K_evolutions ==
    <<"e", "v", "o", "l", "u", "t", "i", "o", "n", "s">>
K_materialEnchants ==
    <<"m", "a", "t", "e", "r", "i", "a", "l", "E", "n", "c", "h", "a", "n", "t", "s">>
K_enchants ==
    <<"e", "n", "c", "h", "a", "n", "t", "s">>
K_itemStrings ==
    <<"i", "t", "e", "m", "S", "t", "r", "i", "n", "g", "s">>
K_passivities ==
    <<"p", "a", "s", "s", "i", "v", "i", "t", "i", "e", "s">>
K_cCompensations ==
    <<"c", "C", "o", "m", "p", "e", "n", "s", "a", "t", "i", "o", "n", "s">>
K_eCompensations ==
    <<"e", "C", "o", "m", "p", "e", "n", "s", "a", "t", "i", "o", "n", "s">>
K_fCompensations ==
    <<"f", "C", "o", "m", "p", "e", "n", "s", "a", "t", "i", "o", "n", "s">>
K_iCompensations ==
    <<"i", "C", "o", "m", "p", "e", "n", "s", "a", "t", "i", "o", "n", "s">>
T_ItemData ==
    <<"I", "t", "e", "m", "D", "a", "t", "a">>
T_EquipmentData ==
    <<"E", "q", "u", "i", "p", "m", "e", "n", "t", "D", "a", "t", "a">>
T_EquipmentEvolutionData ==
    <<"E", "q", "u", "i", "p", "m", "e", "n", "t", "E", "v", "o", "l", "u", "t", "i", "o", "n",
      "D", "a", "t", "a">>
T_MaterialEnchantData ==
    <<"M", "a", "t", "e", "r", "i", "a", "l", "E", "n", "c", "h", "a", "n", "t", "D", "a", "t",
      "a">>
T_EquipmentEnchantData ==
    <<"E", "q", "u", "i", "p", "m", "e", "n", "t", "E", "n", "c", "h", "a", "n", "t", "D", "a",
      "t", "a">>
T_StrSheet_Item ==
    <<"S", "t", "r", "S", "h", "e", "e", "t", "_", "I", "t", "e", "m">>

(***************************************************************************)
(* pathlib.Path: a sequence of components.                                 *)
(***************************************************************************)
\* os.sep of the host
OsSep == <<"/">>

\* str(path)
PathStr(path) == Join(path, OsSep)

\* path.as_posix()
AsPosix(path) == Join(path, <<"/">>)

\* path.relative_to(base), for a path under base
RelativeTo(path, base) == SubSeq(path, Len(base) + 1, Len(path))

\* Path(__file__).resolve().parents[3]
ProjectRoot == << <<"w">> >>

(***************************************************************************)
(* ENTITY_SYNC_MAP and ENTITY_KEY_PATTERN.                                 *)
(***************************************************************************)
\* Python's None
None == <<"None">>

\* the dict, in insertion order: <<key, value>>
ENTITY_SYNC_MAP ==
    << <<K_items, T_ItemData>>,
       <<K_equipment, T_EquipmentData>>,
       <<K_evolutions, T_EquipmentEvolutionData>>,
       <<K_materialEnchants, T_MaterialEnchantData>>,
       <<K_enchants, T_EquipmentEnchantData>>,
       <<K_itemStrings, T_StrSheet_Item>>,
       <<K_passivities, None>>,
       <<K_cCompensations, None>>,
       <<K_eCompensations, None>>,
       <<K_fCompensations, None>>,
       <<K_iCompensations, None>> >>

\* ENTITY_SYNC_MAP.keys()
MapKeys == {ENTITY_SYNC_MAP[k][1] : k \in 1..Len(ENTITY_SYNC_MAP)}

\* ENTITY_SYNC_MAP[key], for key in ENTITY_SYNC_MAP
MapGet(key) ==
    ENTITY_SYNC_MAP[CHOOSE k \in 1..Len(ENTITY_SYNC_MAP) : ENTITY_SYNC_MAP[k][1] = key][2]



\* a pattern taking any name at column 0 that is followed by ":"
ENTITY_KEY_PATTERN_AnyName(line) ==
    IF line # <<>> /\ line[1] \notin Whitespace \cup {"#", ":"} /\ Contains(line, <<":">>)
        THEN {Partition(line, ":")[1]}
    ELSE {}

\* the pattern without its anchor, found anywhere in the line
ENTITY_KEY_PATTERN_Unanchored(line) ==
    LET hits == {k \in 1..Len(ENTITY_SYNC_MAP) :
                    \E i \in 1..Len(line) :
                        StartsWith(SubSeq(line, i, Len(line)),
                                   ENTITY_SYNC_MAP[k][1] \o <<":">>)}
    IN  IF hits = {} THEN {}
        ELSE {ENTITY_SYNC_MAP[CHOOSE k \in hits : \A j \in hits : k <= j][1]}

\* ENTITY_KEY_PATTERN.match(line): the set holding group(1), empty when there is
\* no match. The alternatives are tried in the dict's order, each followed by ":".
ENTITY_KEY_PATTERN(line) ==
    LET hits == {k \in 1..Len(ENTITY_SYNC_MAP) :
                    StartsWith(line, ENTITY_SYNC_MAP[k][1] \o <<":">>)}
    IN  IF hits = {} THEN {}
        ELSE {ENTITY_SYNC_MAP[CHOOSE k \in hits : \A j \in hits : k <= j][1]}

(***************************************************************************)
(* load_references, discover_specs, detect_entities.                       *)
(***************************************************************************)


\* load_references without the test for an empty value
RECURSIVE ParseRefLines_KeepEmpty(_, _)
ParseRefLines_KeepEmpty(lines, refs) ==
    IF lines = <<>> THEN refs
    ELSE LET line == Strip(Head(lines))
             part == Partition(line, "=")
         IN  IF line = <<>> \/ StartsWith(line, <<"#">>)
                 THEN ParseRefLines_KeepEmpty(Tail(lines), refs)
             ELSE ParseRefLines_KeepEmpty(Tail(lines),
                                          (Strip(part[1]) :> Strip(part[3])) @@ refs)

\* load_references keeping the first value of a key
RECURSIVE ParseRefLines_FirstWins(_, _)
ParseRefLines_FirstWins(lines, refs) ==
    IF lines = <<>> THEN refs
    ELSE LET line == Strip(Head(lines))
             part == Partition(line, "=")
         IN  IF line = <<>> \/ StartsWith(line, <<"#">>)
                 THEN ParseRefLines_FirstWins(Tail(lines), refs)
             ELSE IF part[3] # <<>>
                 THEN ParseRefLines_FirstWins(Tail(lines),
                                              refs @@ (Strip(part[1]) :> Strip(part[3])))
             ELSE ParseRefLines_FirstWins(Tail(lines), refs)

RECURSIVE ParseRefLines(_, _)
ParseRefLines(lines, refs) ==
    IF lines = <<>> THEN refs
    ELSE LET line == Strip(Head(lines))
             part == Partition(line, "=")
         IN  IF line = <<>> \/ StartsWith(line, <<"#">>)
                 THEN ParseRefLines(Tail(lines), refs)
             ELSE IF part[3] # <<>>
                 THEN ParseRefLines(Tail(lines), (Strip(part[1]) :> Strip(part[3])) @@ refs)
             ELSE ParseRefLines(Tail(lines), refs)

\* load_references, given the text of reforged/.references
load_references(text) == ParseRefLines(SplitLines(text), <<>>)


\* a sort key that is the file name alone
SpecKey_ByName(p, patch_dir) == p[Len(p)]

\* the sort key of discover_specs
SpecKey(p, patch_dir) == AsPosix(RelativeTo(p, patch_dir))

\* list.sort(key=...): stable insertion of x into the sorted list
RECURSIVE InsertByKey(_, _, _)
InsertByKey(x, sorted, patch_dir) ==
    IF sorted = <<>> THEN <<x>>
    ELSE IF StrLess(SpecKey(x, patch_dir), SpecKey(Head(sorted), patch_dir))
        THEN <<x>> \o sorted
    ELSE <<Head(sorted)>> \o InsertByKey(x, Tail(sorted), patch_dir)

RECURSIVE SortByKey(_, _)
SortByKey(list, patch_dir) ==
    IF list = <<>> THEN <<>>
    ELSE InsertByKey(list[Len(list)], SortByKey(SubSeq(list, 1, Len(list) - 1), patch_dir),
                     patch_dir)

\* discover_specs, lines 50-54: the list before it is sorted, given the files of
\* the tree in the order os.walk yields them
ListSpecs(walk) == SelectSeq(walk, LAMBDA p : EndsWith(p[Len(p)], S_yaml))

\* discover_specs, given the files of the tree in the order os.walk yields them
discover_specs(patch_dir, walk) == SortByKey(ListSpecs(walk), patch_dir)

\* detect_entities, given the text of the spec file
detect_entities(text) ==
    UNION {ENTITY_KEY_PATTERN(line) : line \in
              {SplitFrom(text, <<>>, TRUE)[k] : k \in 1..Len(SplitFrom(text, <<>>, TRUE))}}

(***************************************************************************)
(* apply_spec and run_sync: the command line, and the returned pair.       *)
(***************************************************************************)

\* apply_spec naming the spec by its full path
apply_spec_cmd_FullPath(dsl_cli, spec_path, server_datasheet, project_root, dry_run) ==
    LET cmd == <<dsl_cli, S_apply, PathStr(spec_path), S_path_opt, server_datasheet>>
    IN  IF dry_run THEN Append(cmd, S_dry_run_opt) ELSE cmd

\* apply_spec, lines 77-80: the argument list
apply_spec_cmd(dsl_cli, spec_path, server_datasheet, project_root, dry_run) ==
    LET rel_path == RelativeTo(spec_path, project_root)
        cmd == <<dsl_cli, S_apply, PathStr(rel_path), S_path_opt, server_datasheet>>
    IN  IF dry_run THEN Append(cmd, S_dry_run_opt) ELSE cmd

RECURSIVE ExtendEntities(_, _)
ExtendEntities(cmd, entities) ==
    IF entities = <<>> THEN cmd
    ELSE ExtendEntities(cmd \o <<S_e_opt, Head(entities)>>, Tail(entities))

\* run_sync that forgets to forward --dry-run
run_sync_cmd_NoDryRun(dsl_cli, entities, project_root, dry_run) ==
    LET config == project_root \o <<S_reforged, S_config, S_sync_config_yaml>>
    IN  ExtendEntities(<<dsl_cli, S_sync, S_config_opt, PathStr(config)>>, entities)

\* run_sync, lines 104-109: the argument list
run_sync_cmd(dsl_cli, entities, project_root, dry_run) ==
    LET config == project_root \o <<S_reforged, S_config, S_sync_config_yaml>>
        cmd == ExtendEntities(<<dsl_cli, S_sync, S_config_opt, PathStr(config)>>, entities)
    IN  IF dry_run THEN Append(cmd, S_dry_run_opt) ELSE cmd


\* apply_spec taking the message from standard output before standard error
apply_spec_result_StdoutFirst(res) ==
    LET text == Strip(res.stdout)
    IN  IF res.returncode # 0
            THEN LET error == IF text # <<>> THEN text
                              ELSE IF Strip(res.stderr) # <<>> THEN Strip(res.stderr)
                              ELSE S_Unknown_error
                 IN  [ok |-> FALSE, output |-> error]
        ELSE [ok |-> TRUE, output |-> text]

\* apply_spec, lines 89-94: (ok, output) from the finished process
apply_spec_result(res) ==
    LET text == Strip(res.stdout)
    IN  IF res.returncode # 0
            THEN LET error == IF Strip(res.stderr) # <<>> THEN Strip(res.stderr)
                              ELSE IF text # <<>> THEN text
                              ELSE S_Unknown_error
                 IN  [ok |-> FALSE, output |-> error]
        ELSE [ok |-> TRUE, output |-> text]

\* run_sync that takes only the exit status 1 for a failure
run_sync_result_OnlyStatusOne(res) ==
    LET text == Strip(res.stdout)
    IN  IF res.returncode = 1
            THEN LET error == IF Strip(res.stderr) # <<>> THEN Strip(res.stderr)
                              ELSE IF text # <<>> THEN text
                              ELSE S_Unknown_error
                 IN  [ok |-> FALSE, output |-> error]
        ELSE [ok |-> TRUE, output |-> text]

\* run_sync, lines 118-123: (ok, output) from the finished process
run_sync_result(res) ==
    LET text == Strip(res.stdout)
    IN  IF res.returncode # 0
            THEN LET error == IF Strip(res.stderr) # <<>> THEN Strip(res.stderr)
                              ELSE IF text # <<>> THEN text
                              ELSE S_Unknown_error
                 IN  [ok |-> FALSE, output |-> error]
        ELSE [ok |-> TRUE, output |-> text]

\* count_by_category
count_by_category(specs, patch_dir) ==
    LET loot == {k \in 1..Len(specs) : Contains(SpecKey(specs[k], patch_dir), <<"/">>)}
    IN  <<Len(specs) - Cardinality(loot), Cardinality(loot)>>

\* sorted(S) for a set of str
RECURSIVE SortedStrs(_)
SortedStrs(S) ==
    IF S = {} THEN <<>>
    ELSE LET m == CHOOSE x \in S : \A y \in S \ {x} : StrLess(x, y)
         IN  <<m>> \o SortedStrs(S \ {m})

(***************************************************************************)
(* The environment of a run: command line, reference file, patch tree and  *)
(* what the external tool answers.                                         *)
(***************************************************************************)
\* the value of --patch
PatchName ==
    <<"p", "1">>

\* paths of files under the patch directory, relative to it
F_a == << <<"a", ".", "y", "a", "m", "l">> >>
F_a_b == << <<"a", "-", "b", ".", "y", "a", "m", "l">> >>
F_sub_b == << <<"a">>, <<"b", ".", "y", "a", "m", "l">> >>
F_note == << <<"n", ".", "t", "x", "t">> >>
FilePool == {F_a, F_a_b, F_sub_b, F_note}

\* spec texts
TextItems ==
    <<"i", "t", "e", "m", "s", ":", "\n", " ", " ", "e", "v", "o", "l", "u", "t", "i", "o",
      "n", "s", ":", "\n", "i", "t", "e", "m", "S", "t", "r", "i", "n", "g", "s", " ", ":",
      "\n">>

TextEvolutions ==
    <<"e", "v", "o", "l", "u", "t", "i", "o", "n", "s", ":", "\n">>

TextMixed ==
    <<"#", " ", "c", "\n", "e", "n", "c", "h", "a", "n", "t", "s", ":", "\n", "e", "q", "u",
      "i", "p", "m", "e", "n", "t", ":", "\n", "p", "a", "s", "s", "i", "v", "i", "t", "i",
      "e", "s", ":", "\n", "f", "o", "o", ":", "\n">>

TextServerOnly ==
    <<"p", "a", "s", "s", "i", "v", "i", "t", "i", "e", "s", ":", "\n">>

\* the text of the file that is no spec
TextNote ==
    <<"i", "t", "e", "m", "s", ":", "\n">>

\* the texts each file of the pool can hold
TextPool(p) ==
    CASE p = F_a -> {TextItems, TextServerOnly}
      [] p = F_a_b -> {TextEvolutions, TextMixed}
      [] p = F_sub_b -> {TextMixed, TextServerOnly}
      [] OTHER -> {TextNote}

\* texts of reforged/.references
RefsPlain ==
    <<"#", " ", "c", "\n", "\n", "s", "e", "r", "v", "e", "r", "_", "d", "a", "t", "a", "s",
      "h", "e", "e", "t", "=", "/", "d", "\n">>

RefsOverride ==
    <<"d", "s", "l", "_", "c", "l", "i", " ", "=", " ", "x", "\n", "s", "e", "r", "v", "e",
      "r", "_", "d", "a", "t", "a", "s", "h", "e", "e", "t", "=", "/", "e", "\n", " ", "s",
      "e", "r", "v", "e", "r", "_", "d", "a", "t", "a", "s", "h", "e", "e", "t", " ", "=", " ",
      "/", "d", " ", "\n">>

RefsEmptyValue ==
    <<"s", "e", "r", "v", "e", "r", "_", "d", "a", "t", "a", "s", "h", "e", "e", "t", "=",
      "\n">>

RefsNoKey ==
    <<"d", "s", "l", "_", "c", "l", "i", "=", "x", "\n", "n", "o", "k", "e", "y", "\n">>

\* the reference file: absent, or present with one of the texts
RefFiles ==
    {[exists |-> FALSE, text |-> <<>>]}
    \cup {[exists |-> TRUE, text |-> t] :
             t \in {RefsPlain, RefsOverride, RefsEmptyValue, RefsNoKey}}

\* what a finished external process hands back to subprocess.run. The external
\* tool is an executable that starts and exits: a tool that cannot be launched
\* (subprocess.run raising) or that never exits is outside this model.
ResultOk ==
    [returncode |-> 0,
     stdout |-> <<"l", "o", "a", "d", "\n", "A", "p", "p", "l", "i", "e", "d", " ", "2", "\n">>,
     stderr |-> <<>>]
ResultFailed ==
    [returncode |-> 1,
     stdout |-> <<"x", "\n">>,
     stderr |-> <<" ", "b", "o", "o", "m", "\n", "a", "t", " ", "1", "\n">>]
ResultSilent ==
    [returncode |-> 2,
     stdout |-> <<" ", "\n">>,
     stderr |-> <<>>]
Results == {ResultOk, ResultFailed, ResultSilent}

(***************************************************************************)
(* State.                                                                  *)
(***************************************************************************)
VARIABLES
    args,               \* argparse result: patch, dry_run, skip_sync, verbose
    refFile,            \* reforged/.references on disk
    patchIsDir,         \* patch_dir.is_dir()
    tree,               \* files under the patch directory: relative path -> text
    pc,                 \* position of main()
    refs,               \* main: refs
    dsl_cli,            \* main: dsl_cli
    server_datasheet,   \* main: server_datasheet
    specs,              \* main: specs
    idx,                \* number of loop iterations completed (i - 1)
    all_entity_keys,    \* main: all_entity_keys
    applied,            \* main: applied
    failed,             \* main: failed
    failed_specs,       \* main: failed_specs
    syncable_entities,  \* main: syncable_entities
    server_only_keys,   \* main: server_only_keys
    result,             \* apply_spec, run_sync: result, what subprocess.run returned last
    ok,                 \* main: ok
    output,             \* main: output
    events,             \* external processes started and exited, in order
    out,                \* what the run has printed, in order
    exit_code,          \* the value main() returned, -1 while it runs
    dryTwin,            \* the same run with --dry-run flipped, same environment
    verbTwin            \* the same run with --verbose flipped, same environment

env == <<args, refFile, patchIsDir, tree>>
prog == <<pc, refs, dsl_cli, server_datasheet, specs, idx, all_entity_keys, applied, failed,
          failed_specs, syncable_entities, server_only_keys, result, ok, output, events, out,
          exit_code>>
vars == <<env, prog, dryTwin, verbTwin>>

\* the program state as one record
Cur ==
    [pc |-> pc, refs |-> refs, dsl_cli |-> dsl_cli, server_datasheet |-> server_datasheet,
     specs |-> specs, idx |-> idx, all_entity_keys |-> all_entity_keys,
     applied |-> applied, failed |-> failed, failed_specs |-> failed_specs,
     syncable_entities |-> syncable_entities, server_only_keys |-> server_only_keys,
     result |-> result, ok |-> ok, output |-> output,
     events |-> events, out |-> out, exit_code |-> exit_code]

\* the environment as one record
Env == [args |-> args, refFile |-> refFile, patchIsDir |-> patchIsDir, tree |-> tree]

\* the environment of the twin run
DryTwinEnv == [Env EXCEPT !.args.dry_run = ~@]
VerbTwinEnv == [Env EXCEPT !.args.verbose = ~@]

\* the program state becomes t
Commit(t) ==
    /\ pc' = t.pc
    /\ refs' = t.refs
    /\ dsl_cli' = t.dsl_cli
    /\ server_datasheet' = t.server_datasheet
    /\ specs' = t.specs
    /\ idx' = t.idx
    /\ all_entity_keys' = t.all_entity_keys
    /\ applied' = t.applied
    /\ failed' = t.failed
    /\ failed_specs' = t.failed_specs
    /\ syncable_entities' = t.syncable_entities
    /\ server_only_keys' = t.server_only_keys
    /\ result' = t.result
    /\ ok' = t.ok
    /\ output' = t.output
    /\ events' = t.events
    /\ out' = t.out
    /\ exit_code' = t.exit_code

\* no process has returned yet
NoResult == [returncode |-> -1, stdout |-> <<>>, stderr |-> <<>>]

\* the state main() starts in
Start ==
    [pc |-> "start", refs |-> <<>>, dsl_cli |-> <<>>, server_datasheet |-> <<>>,
     specs |-> <<>>, idx |-> 0, all_entity_keys |-> {}, applied |-> 0, failed |-> 0,
     failed_specs |-> <<>>, syncable_entities |-> <<>>, server_only_keys |-> <<>>,
     result |-> NoResult, ok |-> FALSE, output |-> <<>>,
     events |-> <<>>, out |-> <<>>, exit_code |-> -1]

\* the patch trees: at most MaxFiles files of the pool, a text for each
Trees ==
    UNION {{t \in [S -> UNION {TextPool(p) : p \in FilePool}] :
               \A p \in S : t[p] \in TextPool(p)} :
           S \in {S \in SUBSET FilePool : Cardinality(S) <= MaxFiles}}

\* the orders in which os.walk can yield the files of the tree, as absolute paths
WalkOrders(patch_dir, t) ==
    LET n == Cardinality(DOMAIN t)
    IN  {[k \in 1..n |-> patch_dir \o q[k]] :
            q \in {q \in [1..n -> DOMAIN t] : \A i, j \in 1..n : q[i] = q[j] => i = j}}

Init ==
    /\ args \in [patch : {PatchName}, dry_run : BOOLEAN, skip_sync : BOOLEAN,
                 verbose : BOOLEAN]
    /\ refFile \in RefFiles
    /\ patchIsDir \in BOOLEAN
    /\ tree \in Trees
    /\ ~patchIsDir => DOMAIN tree = {}
    /\ pc = Start.pc
    /\ refs = Start.refs
    /\ dsl_cli = Start.dsl_cli
    /\ server_datasheet = Start.server_datasheet
    /\ specs = Start.specs
    /\ idx = Start.idx
    /\ all_entity_keys = Start.all_entity_keys
    /\ applied = Start.applied
    /\ failed = Start.failed
    /\ failed_specs = Start.failed_specs
    /\ syncable_entities = Start.syncable_entities
    /\ server_only_keys = Start.server_only_keys
    /\ result = Start.result
    /\ ok = Start.ok
    /\ output = Start.output
    /\ events = Start.events
    /\ out = Start.out
    /\ exit_code = Start.exit_code
    /\ dryTwin = Start
    /\ verbTwin = Start

(***************************************************************************)
(* main(), one operator per step: the program state after the step, from   *)
(* the state s before it, the environment e and what the step reads.       *)
(***************************************************************************)
\* project_root / "reforged" / "specs" / "patches" / args.patch
PatchDir(e) == ProjectRoot \o <<S_reforged, S_specs, S_patches, e.args.patch>>

\* print(...): one record per call, <<what, values...>>
Emit(s, lines) == [s EXCEPT !.out = @ \o lines]

\* return code: main() is over
Return(s, code) == [s EXCEPT !.pc = "done", !.exit_code = code]

\* an exception nobody catches: the interpreter prints the traceback and exits 1
Raise(s, exception) == Return(Emit(s, << <<"traceback", exception>> >>), 1)


\* main falling back on a default datasheet path, as it does for dsl_cli
LoadReferencesStep_DefaultDatasheet(s, e) ==
    LET r == IF e.refFile.exists THEN load_references(e.refFile.text) ELSE <<>>
    IN  [s EXCEPT !.pc = "check_patch",
                  !.refs = r,
                  !.dsl_cli = IF S_dsl_cli \in DOMAIN r THEN r[S_dsl_cli]
                              ELSE PathStr(ProjectRoot \o <<S_dsl_exe>>),
                  !.server_datasheet = IF S_server_datasheet \in DOMAIN r
                                           THEN r[S_server_datasheet]
                                       ELSE PathStr(ProjectRoot \o <<S_server_datasheet>>)]

\* lines 146-150
LoadReferencesStep(s, e) ==
    IF ~e.refFile.exists THEN Raise(s, "FileNotFoundError")
    ELSE LET r == load_references(e.refFile.text)
         IN  IF S_server_datasheet \notin DOMAIN r
                 THEN Raise([s EXCEPT !.refs = r], "KeyError")
             ELSE [s EXCEPT !.pc = "check_patch",
                            !.refs = r,
                            !.dsl_cli = IF S_dsl_cli \in DOMAIN r THEN r[S_dsl_cli]
                                        ELSE PathStr(ProjectRoot \o <<S_dsl_exe>>),
                            !.server_datasheet = r[S_server_datasheet]]

\* lines 152-155
CheckPatchDirStep(s, e) ==
    IF ~e.patchIsDir
        THEN Return(Emit(s, << <<"error_patch_dir_not_found", PatchDir(e)>> >>), 1)
    ELSE [s EXCEPT !.pc = "discover"]


\* main taking a patch without specs for a patch with nothing left to do
DiscoverStep_EmptyIsSuccess(s, e, walk) ==
    LET found == discover_specs(PatchDir(e), walk)
        counts == count_by_category(found, PatchDir(e))
        header == << <<"patch", e.args.patch, counts[1], counts[2], Len(found)>> >>
                  \o (IF e.args.dry_run THEN << <<"dry_run_mode">> >> ELSE <<>>)
                  \o << <<"blank">> >>
    IN  IF found = <<>>
            THEN Return(Emit(s, << <<"error_no_specs", PatchDir(e)>> >>), 0)
        ELSE [Emit(s, header) EXCEPT !.pc = "loop",
                                     !.specs = found,
                                     !.idx = 0,
                                     !.all_entity_keys = {},
                                     !.applied = 0,
                                     !.failed = 0,
                                     !.failed_specs = <<>>]

\* lines 157-178
DiscoverStep(s, e, walk) ==
    LET found == discover_specs(PatchDir(e), walk)
        counts == count_by_category(found, PatchDir(e))
        header == << <<"patch", e.args.patch, counts[1], counts[2], Len(found)>> >>
                  \o (IF e.args.dry_run THEN << <<"dry_run_mode">> >> ELSE <<>>)
                  \o << <<"blank">> >>
    IN  IF found = <<>>
            THEN Return(Emit(s, << <<"error_no_specs", PatchDir(e)>> >>), 1)
        ELSE [Emit(s, header) EXCEPT !.pc = "loop",
                                     !.specs = found,
                                     !.idx = 0,
                                     !.all_entity_keys = {},
                                     !.applied = 0,
                                     !.failed = 0,
                                     !.failed_specs = <<>>]


\* the loop keeping the entities of the current spec only
DetectStep_Replace(s, e) ==
    LET spec == s.specs[s.idx + 1]
        rel == AsPosix(RelativeTo(spec, PatchDir(e)))
        entities == detect_entities(e.tree[RelativeTo(spec, PatchDir(e))])
    IN  [Emit(s, << <<"spec", s.idx + 1, Len(s.specs), rel>> >>)
            EXCEPT !.pc = "apply",
                   !.all_entity_keys = entities]

\* lines 180-185: the head of one iteration
DetectStep(s, e) ==
    LET spec == s.specs[s.idx + 1]
        rel == AsPosix(RelativeTo(spec, PatchDir(e)))
        entities == detect_entities(e.tree[RelativeTo(spec, PatchDir(e))])
    IN  [Emit(s, << <<"spec", s.idx + 1, Len(s.specs), rel>> >>)
            EXCEPT !.pc = "apply",
                   !.all_entity_keys = @ \cup entities]

\* the loop walking the specs from the last to the first
ApplyStartStep_Reversed(s, e) ==
    LET cmd == apply_spec_cmd(s.dsl_cli, s.specs[Len(s.specs) - s.idx], s.server_datasheet,
                              ProjectRoot, e.args.dry_run)
    IN  [s EXCEPT !.pc = "apply_wait",
                  !.events = Append(@, [ev |-> "start", cmd |-> cmd, returncode |-> -1])]


\* the loop starting the tool and going on to the next spec without waiting for it
ApplyStartStep_NoWait(s, e) ==
    LET cmd == apply_spec_cmd(s.dsl_cli, s.specs[s.idx + 1], s.server_datasheet,
                              ProjectRoot, e.args.dry_run)
    IN  [s EXCEPT !.pc = "loop",
                  !.idx = @ + 1,
                  !.events = Append(@, [ev |-> "start", cmd |-> cmd, returncode |-> -1])]

\* line 187 and apply_spec, lines 77-87: the process is started
ApplyStartStep(s, e) ==
    LET cmd == apply_spec_cmd(s.dsl_cli, s.specs[s.idx + 1], s.server_datasheet,
                              ProjectRoot, e.args.dry_run)
    IN  [s EXCEPT !.pc = "apply_wait",
                  !.events = Append(@, [ev |-> "start", cmd |-> cmd, returncode |-> -1])]

\* lines 190-202: what is printed for an applied spec
AppliedLines(e, text) ==
    LET lines == SplitLines(text)
        hits == {k \in 1..Len(lines) :
                    Contains(lines[k], S_Applied) \/ Contains(Lower(lines[k]), S_operations)}
    IN  IF e.args.verbose /\ text # <<>>
            THEN [k \in 1..Len(lines) |-> <<"output_line", lines[k]>>]
        ELSE IF hits # {} /\ Strip(lines[CHOOSE k \in hits : \A j \in hits : k <= j]) # <<>>
            THEN << <<"applied",
                      Strip(lines[CHOOSE k \in hits : \A j \in hits : k <= j])>> >>
        ELSE << <<"applied", S_Applied>> >>


\* a failed spec printed only with --verbose
FailedLines_OnlyVerbose(e, text) ==
    LET lines == SplitLines(text)
        error_brief == IF text # <<>> THEN lines[1] ELSE S_Unknown_error
    IN  IF e.args.verbose
            THEN << <<"failed", error_brief>> >>
                 \o [k \in 1..(Len(lines) - 1) |-> <<"error_line", lines[k + 1]>>]
        ELSE <<>>

\* lines 206-210: what is printed for a failed spec
FailedLines(e, text) ==
    LET lines == SplitLines(text)
        error_brief == IF text # <<>> THEN lines[1] ELSE S_Unknown_error
    IN  << <<"failed", error_brief>> >>
        \o (IF e.args.verbose /\ text # <<>>
                THEN [k \in 1..(Len(lines) - 1) |-> <<"error_line", lines[k + 1]>>]
            ELSE <<>>)

\* the last process started
Running(s) == s.events[Len(s.events)].cmd

\* the loop stopping at the first failed spec
ApplyReturnStep_StopOnFailure(s, e, res) ==
    LET r == apply_spec_result(res)
        rel == AsPosix(RelativeTo(s.specs[s.idx + 1], PatchDir(e)))
        exited == [ev |-> "exit", cmd |-> Running(s), returncode |-> res.returncode]
    IN  IF r.ok
            THEN [Emit(s, AppliedLines(e, r.output))
                     EXCEPT !.pc = "loop",
                            !.idx = @ + 1,
                            !.result = res,
                            !.ok = r.ok,
                            !.output = r.output,
                            !.events = Append(@, exited),
                            !.applied = @ + 1]
        ELSE [Emit(s, FailedLines(e, r.output))
                 EXCEPT !.pc = "loop",
                        !.idx = Len(s.specs),
                        !.result = res,
                        !.ok = r.ok,
                        !.output = r.output,
                        !.events = Append(@, exited),
                        !.failed = @ + 1,
                        !.failed_specs = Append(@, rel)]

\* the loop keeping the entity types of applied specs only
ApplyReturnStep_DropFailed(s, e, res) ==
    LET r == apply_spec_result(res)
        rel == AsPosix(RelativeTo(s.specs[s.idx + 1], PatchDir(e)))
        exited == [ev |-> "exit", cmd |-> Running(s), returncode |-> res.returncode]
    IN  IF r.ok
            THEN [Emit(s, AppliedLines(e, r.output))
                     EXCEPT !.pc = "loop",
                            !.idx = @ + 1,
                            !.result = res,
                            !.ok = r.ok,
                            !.output = r.output,
                            !.events = Append(@, exited),
                            !.applied = @ + 1]
        ELSE [Emit(s, FailedLines(e, r.output))
                 EXCEPT !.pc = "loop",
                        !.idx = @ + 1,
                        !.result = res,
                        !.ok = r.ok,
                        !.output = r.output,
                        !.events = Append(@, exited),
                        !.all_entity_keys =
                            @ \ detect_entities(e.tree[RelativeTo(s.specs[s.idx + 1],
                                                                   PatchDir(e))]),
                        !.failed = @ + 1,
                        !.failed_specs = Append(@, rel)]


\* the loop counting an applied spec only where it prints the short form
ApplyReturnStep_CountInElse(s, e, res) ==
    LET r == apply_spec_result(res)
        rel == AsPosix(RelativeTo(s.specs[s.idx + 1], PatchDir(e)))
        exited == [ev |-> "exit", cmd |-> Running(s), returncode |-> res.returncode]
    IN  IF r.ok
            THEN [Emit(s, AppliedLines(e, r.output))
                     EXCEPT !.pc = "loop",
                            !.idx = @ + 1,
                            !.result = res,
                            !.ok = r.ok,
                            !.output = r.output,
                            !.events = Append(@, exited),
                            !.applied = IF e.args.verbose /\ r.output # <<>>
                                            THEN @ ELSE @ + 1]
        ELSE [Emit(s, FailedLines(e, r.output))
                 EXCEPT !.pc = "loop",
                        !.idx = @ + 1,
                        !.result = res,
                        !.ok = r.ok,
                        !.output = r.output,
                        !.events = Append(@, exited),
                        !.failed = @ + 1,
                        !.failed_specs = Append(@, rel)]


\* the loop counting a failed spec without noting which one it was
ApplyReturnStep_NoFailedList(s, e, res) ==
    LET r == apply_spec_result(res)
        exited == [ev |-> "exit", cmd |-> Running(s), returncode |-> res.returncode]
    IN  IF r.ok
            THEN [Emit(s, AppliedLines(e, r.output))
                     EXCEPT !.pc = "loop",
                            !.idx = @ + 1,
                            !.result = res,
                            !.ok = r.ok,
                            !.output = r.output,
                            !.events = Append(@, exited),
                            !.applied = @ + 1]
        ELSE [Emit(s, FailedLines(e, r.output))
                 EXCEPT !.pc = "loop",
                        !.idx = @ + 1,
                        !.result = res,
                        !.ok = r.ok,
                        !.output = r.output,
                        !.events = Append(@, exited),
                        !.failed = @ + 1]

\* apply_spec, lines 89-94, and lines 188-210: the process has exited
ApplyReturnStep(s, e, res) ==
    LET r == apply_spec_result(res)
        rel == AsPosix(RelativeTo(s.specs[s.idx + 1], PatchDir(e)))
        exited == [ev |-> "exit", cmd |-> Running(s), returncode |-> res.returncode]
    IN  IF r.ok
            THEN [Emit(s, AppliedLines(e, r.output))
                     EXCEPT !.pc = "loop",
                            !.idx = @ + 1,
                            !.result = res,
                            !.ok = r.ok,
                            !.output = r.output,
                            !.events = Append(@, exited),
                            !.applied = @ + 1]
        ELSE [Emit(s, FailedLines(e, r.output))
                 EXCEPT !.pc = "loop",
                        !.idx = @ + 1,
                        !.result = res,
                        !.ok = r.ok,
                        !.output = r.output,
                        !.events = Append(@, exited),
                        !.failed = @ + 1,
                        !.failed_specs = Append(@, rel)]

\* the targets in the order of their entity keys
SyncableEntities_ByKey(keys) ==
    LET sorted_keys == SortedStrs({k \in keys : k \in MapKeys /\ MapGet(k) # None})
    IN  [j \in 1..Len(sorted_keys) |-> MapGet(sorted_keys[j])]

\* lines 222-225
SyncableEntities(keys) ==
    SortedStrs({MapGet(k) : k \in {k \in keys : k \in MapKeys /\ MapGet(k) # None}})


\* the server-only list without the test for None
ServerOnlyKeys_All(keys) ==
    SortedStrs({k \in keys : k \in MapKeys})

\* lines 226-229
ServerOnlyKeys(keys) ==
    SortedStrs({k \in keys : k \in MapKeys /\ MapGet(k) = None})

\* lines 212-234: what the summary prints
SummaryLines(s, e, syncable, server_only) ==
    << <<"blank">>, <<"summary_header">>, <<"applied_count", s.applied, s.failed>> >>
    \o (IF s.failed_specs # <<>> /\ e.args.verbose
            THEN [k \in 1..Len(s.failed_specs) |-> <<"failed_spec", s.failed_specs[k]>>]
        ELSE <<>>)
    \o (IF syncable # <<>> THEN << <<"entities_modified", syncable>> >> ELSE <<>>)
    \o (IF server_only # <<>> THEN << <<"server_only", server_only>> >> ELSE <<>>)

\* main without the --skip-sync test
SummaryStep_IgnoreSkip(s, e) ==
    LET syncable == SyncableEntities(s.all_entity_keys)
        server_only == ServerOnlyKeys(s.all_entity_keys)
        t == [Emit(s, SummaryLines(s, e, syncable, server_only))
                 EXCEPT !.syncable_entities = syncable,
                        !.server_only_keys = server_only]
    IN  IF syncable = <<>>
            THEN Return(Emit(t, << <<"nothing_to_sync">> >>), 0)
        ELSE [t EXCEPT !.pc = "sync"]

\* main taking --dry-run for a reason to skip the sync
SummaryStep_DrySkipsSync(s, e) ==
    LET syncable == SyncableEntities(s.all_entity_keys)
        server_only == ServerOnlyKeys(s.all_entity_keys)
        t == [Emit(s, SummaryLines(s, e, syncable, server_only))
                 EXCEPT !.syncable_entities = syncable,
                        !.server_only_keys = server_only]
    IN  IF e.args.skip_sync \/ e.args.dry_run
            THEN Return(Emit(t, << <<"sync_skipped">> >>), 0)
        ELSE IF syncable = <<>>
            THEN Return(Emit(t, << <<"nothing_to_sync">> >>), 0)
        ELSE [t EXCEPT !.pc = "sync"]


\* main going on to sync whenever any entity name was detected
SummaryStep_GateOnAnyKey(s, e) ==
    LET syncable == SyncableEntities(s.all_entity_keys)
        server_only == ServerOnlyKeys(s.all_entity_keys)
        t == [Emit(s, SummaryLines(s, e, syncable, server_only))
                 EXCEPT !.syncable_entities = syncable,
                        !.server_only_keys = server_only]
    IN  IF e.args.skip_sync
            THEN Return(Emit(t, << <<"sync_skipped">> >>), 0)
        ELSE IF s.all_entity_keys = {}
            THEN Return(Emit(t, << <<"nothing_to_sync">> >>), 0)
        ELSE [t EXCEPT !.pc = "sync"]


\* main leaving without a word when --skip-sync is given
SummaryStep_SilentSkip(s, e) ==
    LET syncable == SyncableEntities(s.all_entity_keys)
        server_only == ServerOnlyKeys(s.all_entity_keys)
        t == [Emit(s, SummaryLines(s, e, syncable, server_only))
                 EXCEPT !.syncable_entities = syncable,
                        !.server_only_keys = server_only]
    IN  IF e.args.skip_sync
            THEN Return(t, 0)
        ELSE IF syncable = <<>>
            THEN Return(Emit(t, << <<"nothing_to_sync">> >>), 0)
        ELSE [t EXCEPT !.pc = "sync"]

\* lines 212-243: after the loop, up to the decision to sync
SummaryStep(s, e) ==
    LET syncable == SyncableEntities(s.all_entity_keys)
        server_only == ServerOnlyKeys(s.all_entity_keys)
        t == [Emit(s, SummaryLines(s, e, syncable, server_only))
                 EXCEPT !.syncable_entities = syncable,
                        !.server_only_keys = server_only]
    IN  IF e.args.skip_sync
            THEN Return(Emit(t, << <<"sync_skipped">> >>), 0)
        ELSE IF syncable = <<>>
            THEN Return(Emit(t, << <<"nothing_to_sync">> >>), 0)
        ELSE [t EXCEPT !.pc = "sync"]

\* lines 245-249 and run_sync, lines 104-116: the process is started
SyncStartStep(s, e) ==
    LET cmd == run_sync_cmd(s.dsl_cli, s.syncable_entities, ProjectRoot, e.args.dry_run)
        t == Emit(s, << <<"blank">>, <<"sync_header">>,
                        <<"syncing", s.syncable_entities>> >>)
    IN  [t EXCEPT !.pc = "sync_wait",
                  !.events = Append(@, [ev |-> "start", cmd |-> cmd, returncode |-> -1])]

\* main returning 1 where it should return 0 after a successful sync
SyncReturnStep_SwappedCodes(s, e, res) ==
    LET r == run_sync_result(res)
        lines == SplitLines(r.output)
        t == [s EXCEPT !.result = res,
                       !.ok = r.ok,
                       !.output = r.output,
                       !.events = Append(@, [ev |-> "exit", cmd |-> Running(s),
                                              returncode |-> res.returncode])]
    IN  IF r.ok
            THEN Return(Emit(t, << <<"sync_complete">> >>
                                \o (IF e.args.verbose /\ r.output # <<>>
                                        THEN [k \in 1..Len(lines) |->
                                                 <<"output_line", lines[k]>>]
                                    ELSE <<>>)), 1)
        ELSE Return(Emit(t, << <<"sync_failed", r.output>> >>), 0)



\* main trying the sync again after it has failed
SyncReturnStep_RetrySync(s, e, res) ==
    LET r == run_sync_result(res)
        lines == SplitLines(r.output)
        t == [s EXCEPT !.result = res,
                       !.ok = r.ok,
                       !.output = r.output,
                       !.events = Append(@, [ev |-> "exit", cmd |-> Running(s),
                                              returncode |-> res.returncode])]
    IN  IF r.ok
            THEN Return(Emit(t, << <<"sync_complete">> >>
                                \o (IF e.args.verbose /\ r.output # <<>>
                                        THEN [k \in 1..Len(lines) |->
                                                 <<"output_line", lines[k]>>]
                                    ELSE <<>>)), 0)
        ELSE [Emit(t, << <<"sync_failed", r.output>> >>) EXCEPT !.pc = "sync"]

\* a failed sync charged to the specs: the last applied spec is counted as failed
SyncReturnStep_MarksFailed(s, e, res) ==
    LET r == run_sync_result(res)
        lines == SplitLines(r.output)
        t == [s EXCEPT !.result = res,
                       !.ok = r.ok,
                       !.output = r.output,
                       !.events = Append(@, [ev |-> "exit", cmd |-> Running(s),
                                              returncode |-> res.returncode])]
    IN  IF r.ok
            THEN Return(Emit(t, << <<"sync_complete">> >>
                                \o (IF e.args.verbose /\ r.output # <<>>
                                        THEN [k \in 1..Len(lines) |->
                                                 <<"output_line", lines[k]>>]
                                    ELSE <<>>)), 0)
        ELSE Return(Emit([t EXCEPT !.applied = IF @ > 0 THEN @ - 1 ELSE @,
                                   !.failed = IF s.applied > 0 THEN @ + 1 ELSE @],
                         << <<"sync_failed", r.output>> >>), 1)

\* run_sync, lines 118-123, and lines 250-258: the process has exited
SyncReturnStep(s, e, res) ==
    LET r == run_sync_result(res)
        lines == SplitLines(r.output)
        t == [s EXCEPT !.result = res,
                       !.ok = r.ok,
                       !.output = r.output,
                       !.events = Append(@, [ev |-> "exit", cmd |-> Running(s),
                                              returncode |-> res.returncode])]
    IN  IF r.ok
            THEN Return(Emit(t, << <<"sync_complete">> >>
                                \o (IF e.args.verbose /\ r.output # <<>>
                                        THEN [k \in 1..Len(lines) |->
                                                 <<"output_line", lines[k]>>]
                                    ELSE <<>>)), 0)
        ELSE Return(Emit(t, << <<"sync_failed", r.output>> >>), 1)

\* the step main() takes from state s, reading the walk order or the process result
Step(s, e, walk, res) ==
    CASE s.pc = "start" -> LoadReferencesStep(s, e)
      [] s.pc = "check_patch" -> CheckPatchDirStep(s, e)
      [] s.pc = "discover" -> DiscoverStep(s, e, walk)
      [] s.pc = "loop" /\ s.idx < Len(s.specs) -> DetectStep(s, e)
      [] s.pc = "loop" /\ s.idx >= Len(s.specs) -> SummaryStep(s, e)
      [] s.pc = "apply" -> ApplyStartStep(s, e)
      [] s.pc = "apply_wait" -> ApplyReturnStep(s, e, res)
      [] s.pc = "sync" -> SyncStartStep(s, e)
      [] s.pc = "sync_wait" -> SyncReturnStep(s, e, res)
      [] OTHER -> s

(***************************************************************************)
(* The actions: main() takes a step, and the twin run takes its own step   *)
(* on the same walk order and the same process result.                  *)
(***************************************************************************)
\* a walk order, for the steps that read none
AnyWalk == <<>>

\* the twin runs take their step
Twins(walk, res) ==
    /\ dryTwin' = Step(dryTwin, DryTwinEnv, walk, res)
    /\ verbTwin' = Step(verbTwin, VerbTwinEnv, walk, res)

LoadReferences ==
    /\ pc = "start"
    /\ Commit(LoadReferencesStep(Cur, Env))
    /\ Twins(AnyWalk, ResultOk)
    /\ UNCHANGED env

CheckPatchDir ==
    /\ pc = "check_patch"
    /\ Commit(CheckPatchDirStep(Cur, Env))
    /\ Twins(AnyWalk, ResultOk)
    /\ UNCHANGED env

Discover ==
    /\ pc = "discover"
    /\ \E walk \in WalkOrders(PatchDir(Env), tree) :
          /\ Commit(DiscoverStep(Cur, Env, walk))
          /\ Twins(walk, ResultOk)
    /\ UNCHANGED env

Detect ==
    /\ pc = "loop"
    /\ idx < Len(specs)
    /\ Commit(DetectStep(Cur, Env))
    /\ Twins(AnyWalk, ResultOk)
    /\ UNCHANGED env

ApplyStart ==
    /\ pc = "apply"
    /\ Commit(ApplyStartStep(Cur, Env))
    /\ Twins(AnyWalk, ResultOk)
    /\ UNCHANGED env

\* the process of apply_spec exits with one of the results of pool
ApplyReturnFrom(pool) ==
    /\ pc = "apply_wait"
    /\ \E res \in pool :
          /\ Commit(ApplyReturnStep(Cur, Env, res))
          /\ Twins(AnyWalk, res)
    /\ UNCHANGED env

ApplyReturn == ApplyReturnFrom(Results)

Summary ==
    /\ pc = "loop"
    /\ idx >= Len(specs)
    /\ Commit(SummaryStep(Cur, Env))
    /\ Twins(AnyWalk, ResultOk)
    /\ UNCHANGED env

SyncStart ==
    /\ pc = "sync"
    /\ Commit(SyncStartStep(Cur, Env))
    /\ Twins(AnyWalk, ResultOk)
    /\ UNCHANGED env

\* the process of run_sync exits with one of the results of pool
SyncReturnFrom(pool) ==
    /\ pc = "sync_wait"
    /\ \E res \in pool :
          /\ Commit(SyncReturnStep(Cur, Env, res))
          /\ Twins(AnyWalk, res)
    /\ UNCHANGED env

SyncReturn == SyncReturnFrom(Results)

Next ==
    \/ LoadReferences
    \/ CheckPatchDir
    \/ Discover
    \/ Detect
    \/ ApplyStart
    \/ ApplyReturn
    \/ Summary
    \/ SyncStart
    \/ SyncReturn

Spec == Init /\ [][Next]_vars



(***************************************************************************)
(* The run under fairness: main() is one sequential program, so it takes   *)
(* its next step as long as it has one, and subprocess.run returns when    *)
(* the external tool exits, which every tool started is taken to do.       *)
(***************************************************************************)
Positions ==
    {"start", "check_patch", "discover", "loop", "apply", "apply_wait", "sync", "sync_wait",
     "done"}

\* main() moves on: it has not returned, and it gets to another position. Every
\* step of Next is such a step, and in every position but "done" Next has a step.
Advance == pc # "done" /\ pc' \in Positions \ {pc}

FairSpec == Spec /\ WF_pc(Advance)

(***************************************************************************)
(* discover_specs on its own: called again and again on one tree, each     *)
(* time with the files in the order the file system happens to yield.      *)
(***************************************************************************)
MaxListed == 3

\* more files for the tree: an upper-case name, a name that comes twice
F_upper == << <<"B", ".", "y", "a", "m", "l">> >>
F_sub_a == << <<"b">>, <<"a", ".", "y", "a", "m", "l">> >>
DiscoverPool == FilePool \cup {F_upper, F_sub_a}

DiscoverTrees ==
    UNION {[S -> {TextNote}] : S \in {S \in SUBSET DiscoverPool : Cardinality(S) <= MaxListed}}

InitDiscover ==
    /\ args = [patch |-> PatchName, dry_run |-> FALSE, skip_sync |-> FALSE,
               verbose |-> FALSE]
    /\ refFile = [exists |-> TRUE, text |-> RefsPlain]
    /\ patchIsDir = TRUE
    /\ tree \in DiscoverTrees
    /\ pc = "walk"
    /\ refs = Start.refs
    /\ dsl_cli = Start.dsl_cli
    /\ server_datasheet = Start.server_datasheet
    /\ specs = Start.specs
    /\ idx = Start.idx
    /\ all_entity_keys = Start.all_entity_keys
    /\ applied = Start.applied
    /\ failed = Start.failed
    /\ failed_specs = Start.failed_specs
    /\ syncable_entities = Start.syncable_entities
    /\ server_only_keys = Start.server_only_keys
    /\ result = Start.result
    /\ ok = Start.ok
    /\ output = Start.output
    /\ events = Start.events
    /\ out = Start.out
    /\ exit_code = Start.exit_code
    /\ dryTwin = Start
    /\ verbTwin = Start

\* what discover_specs leaves alone
DiscoverFrame ==
    UNCHANGED <<env, refs, dsl_cli, server_datasheet, idx, all_entity_keys, applied, failed,
                failed_specs, syncable_entities, server_only_keys, result, ok, output,
                events, out, exit_code, dryTwin, verbTwin>>

\* lines 50-54: a call, the first or a later one, collects the spec files
WalkFiles ==
    /\ pc \in {"walk", "sorted"}
    /\ \E walk \in WalkOrders(PatchDir(Env), tree) : specs' = ListSpecs(walk)
    /\ pc' = "sort"
    /\ DiscoverFrame

\* line 55
SortFiles ==
    /\ pc = "sort"
    /\ specs' = SortByKey(specs, PatchDir(Env))
    /\ pc' = "sorted"
    /\ DiscoverFrame

NextDiscover == WalkFiles \/ SortFiles

SpecDiscover == InitDiscover /\ [][NextDiscover]_vars


(***************************************************************************)
(* apply_spec and run_sync on every kind of process result: a run over one *)
(* spec that declares a sync target, so that both are called, with the     *)
(* exit status, standard output and standard error of the tool drawn       *)
(* independently.                                                          *)
(***************************************************************************)
WideResults ==
    [returncode : {0, 1, 2, -9},
     stdout : {<<>>, ResultSilent.stdout, ResultFailed.stdout, ResultOk.stdout},
     stderr : {<<>>, <<" ", "\n">>, ResultFailed.stderr}]

InitResult ==
    /\ Init
    /\ refFile = [exists |-> TRUE, text |-> RefsPlain]
    /\ patchIsDir
    /\ tree = (F_a :> TextItems)
    /\ ~args.skip_sync

ApplyReturnWide == ApplyReturnFrom(WideResults)

SyncReturnWide == SyncReturnFrom(WideResults)

NextResult ==
    \/ LoadReferences
    \/ CheckPatchDir
    \/ Discover
    \/ Detect
    \/ ApplyStart
    \/ ApplyReturnWide
    \/ Summary
    \/ SyncStart
    \/ SyncReturnWide

SpecResult == InitResult /\ [][NextResult]_vars


(***************************************************************************)
(* detect_entities on its own: called on a file made of a few lines.       *)
(***************************************************************************)
MaxDetectLines == 2

\* two lines of a spec file: an indented key, and a key that begins like another
L_indented ==
    <<" ", " ", "e", "v", "o", "l", "u", "t", "i", "o", "n", "s", ":", "\n">>
L_itemStrings ==
    <<"i", "t", "e", "m", "S", "t", "r", "i", "n", "g", "s", ":", "\n">>

\* lines of a spec file: a key at column 0, the two lines above, a name outside the
\* vocabulary, a key not followed at once by the colon, a key with a value, a line
\* ending in \r\n, a comment, a key in another case, and a line without its end
DetectLinePool ==
    {<<"i", "t", "e", "m", "s", ":", "\n">>,
     L_indented,
     L_itemStrings,
     <<"f", "o", "o", ":", "\n">>,
     <<"e", "q", "u", "i", "p", "m", "e", "n", "t", " ", ":", "\n">>,
     <<"e", "n", "c", "h", "a", "n", "t", "s", ":", " ", "x", "\n">>,
     <<"p", "a", "s", "s", "i", "v", "i", "t", "i", "e", "s", ":", "\r", "\n">>,
     <<"#", "i", "t", "e", "m", "s", ":", "\n">>,
     <<"I", "t", "e", "m", "s", ":", "\n">>,
     <<"m", "a", "t", "e", "r", "i", "a", "l", "E", "n", "c", "h", "a", "n", "t", "s", ":">>}

\* the files: up to MaxDetectLines lines of the pool, one after the other
DetectTexts ==
    {Join(q, <<>>) : q \in UNION {[1..n -> DetectLinePool] : n \in 0..MaxDetectLines}}

\* everything but pc and the environment is as main() starts with it
RestAtStart ==
    /\ refs = Start.refs
    /\ dsl_cli = Start.dsl_cli
    /\ server_datasheet = Start.server_datasheet
    /\ specs = Start.specs
    /\ idx = Start.idx
    /\ all_entity_keys = Start.all_entity_keys
    /\ applied = Start.applied
    /\ failed = Start.failed
    /\ failed_specs = Start.failed_specs
    /\ syncable_entities = Start.syncable_entities
    /\ server_only_keys = Start.server_only_keys
    /\ result = Start.result
    /\ ok = Start.ok
    /\ output = Start.output
    /\ events = Start.events
    /\ out = Start.out
    /\ exit_code = Start.exit_code
    /\ dryTwin = Start
    /\ verbTwin = Start

InitDetect ==
    /\ args = [patch |-> PatchName, dry_run |-> FALSE, skip_sync |-> FALSE,
               verbose |-> FALSE]
    /\ refFile = [exists |-> TRUE, text |-> RefsPlain]
    /\ patchIsDir = TRUE
    /\ tree \in {(F_a :> t) : t \in DetectTexts}
    /\ pc = "detect"
    /\ RestAtStart

\* lines 59-66: entities = detect_entities(spec)
DetectCall ==
    /\ pc = "detect"
    /\ all_entity_keys' = detect_entities(tree[F_a])
    /\ pc' = "detected"
    /\ UNCHANGED <<env, refs, dsl_cli, server_datasheet, specs, idx, applied, failed,
                   failed_specs, syncable_entities, server_only_keys, result, ok, output,
                   events, out, exit_code, dryTwin, verbTwin>>

NextDetect == DetectCall

SpecDetect == InitDetect /\ [][NextDetect]_vars


(***************************************************************************)
(* load_references on its own: called on a file made of a few lines.       *)
(***************************************************************************)
MaxRefLines == 2

\* two lines of a references file: key=value, and the same key with blanks around
\* key and value
R_plain ==
    <<"a", "=", "1", "\n">>
R_spaced ==
    <<" ", "a", " ", "=", " ", "2", " ", "\n">>

\* lines of a references file: the two lines above, a comment, an indented
\* comment, an empty line, a line of white space, a key with no value, a line
\* without "=", a value holding "=", a value with no key, and a line ending in \r\n
RefLinePool ==
    {R_plain,
     R_spaced,
     <<"#", "a", "=", "3", "\n">>,
     <<" ", " ", "#", " ", "b", "=", "4", "\n">>,
     <<"\n">>,
     <<" ", "\t", "\n">>,
     <<"b", "=", "\n">>,
     <<"n", "o", "k", "e", "y", "\n">>,
     <<"b", "=", "c", "=", "d", "\n">>,
     <<"=", "v", "\n">>,
     <<"c", "=", "/", "d", "\r", "\n">>}

\* the line sequences of a file: up to MaxRefLines lines of the pool
RefLineSeqs == UNION {[1..n -> RefLinePool] : n \in 0..MaxRefLines}

RefTexts == {Join(q, <<>>) : q \in RefLineSeqs}

InitRefs ==
    /\ args = [patch |-> PatchName, dry_run |-> FALSE, skip_sync |-> FALSE,
               verbose |-> FALSE]
    /\ refFile \in {[exists |-> TRUE, text |-> t] : t \in RefTexts}
    /\ patchIsDir = TRUE
    /\ tree = (F_a :> TextItems)
    /\ pc = "load"
    /\ RestAtStart

\* lines 36-46: refs = load_references(project_root)
LoadCall ==
    /\ pc = "load"
    /\ refs' = load_references(refFile.text)
    /\ pc' = "loaded"
    /\ UNCHANGED <<env, dsl_cli, server_datasheet, specs, idx, all_entity_keys, applied,
                   failed, failed_specs, syncable_entities, server_only_keys, result, ok,
                   output, events, out, exit_code, dryTwin, verbTwin>>

NextRefs == LoadCall

SpecRefs == InitRefs /\ [][NextRefs]_vars

(***************************************************************************)
(* What a run shows to the outside: the external invocations and the exit  *)
(* code; and what the patch tree declares.                                 *)
(***************************************************************************)
\* the events of evs that are starts (or exits) of the subcommand sub
EventsOf(evs, kind, sub) ==
    SelectSeq(evs, LAMBDA x : x.ev = kind /\ x.cmd[2] = sub)

ApplyStarts == EventsOf(events, "start", S_apply)
ApplyExits == EventsOf(events, "exit", S_apply)
SyncStarts == EventsOf(events, "start", S_sync)
SyncExits == EventsOf(events, "exit", S_sync)

\* the command line carries --dry-run
HasDryRun(cmd) == \E k \in 1..Len(cmd) : cmd[k] = S_dry_run_opt

\* the command line without --dry-run
WithoutDryRun(cmd) == SelectSeq(cmd, LAMBDA x : x # S_dry_run_opt)

\* the targets of a sync command line: what follows each -e
SyncTargets(cmd) ==
    LET body == SubSeq(WithoutDryRun(cmd), 5, Len(WithoutDryRun(cmd)))
    IN  [j \in 1..(Len(body) \div 2) |-> body[2 * j]]

\* every target of the sync command line is introduced by -e
WellFormedSync(cmd) ==
    LET body == SubSeq(WithoutDryRun(cmd), 5, Len(WithoutDryRun(cmd)))
    IN  /\ Len(body) % 2 = 0
        /\ \A j \in 1..(Len(body) \div 2) : body[2 * j - 1] = S_e_opt

Range(seq) == {seq[k] : k \in 1..Len(seq)}

\* the spec files of the patch tree, and the argument that names one to the apply tool
SpecFiles == {p \in DOMAIN tree : EndsWith(p[Len(p)], S_yaml)}
ApplyArg(p) == PathStr(RelativeTo(PatchDir(Env) \o p, ProjectRoot))

\* the sync targets a set of entity keys stands for
TargetsOf(keys) == {MapGet(k) : k \in {k \in keys : k \in MapKeys /\ MapGet(k) # None}}

\* the sync targets of the entity types the specs of the tree declare
DeclaredTargets == TargetsOf(UNION {detect_entities(tree[p]) : p \in SpecFiles})

\* the run went through the apply loop
ReachedApply == specs # <<>>
AfterLoop == ReachedApply /\ pc \in {"sync", "sync_wait", "done"}
AllAppliesOk == \A k \in 1..Len(ApplyExits) : ApplyExits[k].returncode = 0

(***************************************************************************)
(* Claims.                                                                 *)
(***************************************************************************)
\* C1: a run in which some apply invocation exited non-zero ends with a non-zero
\* exit code, whatever later specs, --skip-sync, the target set or sync do.
\* (The code returns 0 at lines 239, 243 and 255 without looking at failed.)
C1_FailedApplyExitsNonZero ==
    (pc = "done" /\ \E k \in 1..Len(ApplyExits) : ApplyExits[k].returncode # 0)
        => exit_code # 0

\* C2: a run that went through the apply loop with every apply invocation exiting 0
\* exits 0 when sync is skipped by --skip-sync, or the target set is empty, or the
\* sync invocation exits 0.
C2_CleanRunExitsZero ==
    (/\ pc = "done"
     /\ ReachedApply
     /\ AllAppliesOk
     /\ \/ args.skip_sync
        \/ DeclaredTargets = {}
        \/ \E k \in 1..Len(SyncExits) : SyncExits[k].returncode = 0)
        => exit_code = 0

C2_Witness ==
    /\ pc = "done"
    /\ Len(ApplyExits) = 2
    /\ AllAppliesOk
    /\ Len(SyncExits) = 1
    /\ SyncExits[1].returncode = 0
    /\ exit_code = 0

\* C3: when the sync tool is invoked and exits non-zero, the exit code is non-zero
\* and the sync failure is the last thing the run records.
C3_SyncFailureIsFinal ==
    (pc = "done" /\ \E k \in 1..Len(SyncExits) : SyncExits[k].returncode # 0)
        => /\ exit_code # 0
           /\ ~args.skip_sync
           /\ syncable_entities # <<>>
           /\ out[Len(out)][1] = "sync_failed"
           /\ events[Len(events)].ev = "exit"
           /\ events[Len(events)].cmd[2] = S_sync

C3_Witness ==
    /\ pc = "done"
    /\ Len(SyncExits) = 1
    /\ SyncExits[1].returncode = 2
    /\ AllAppliesOk
    /\ exit_code = 1

\* C4: the apply tool is invoked exactly once for each discovered spec, whatever
\* the exit status of earlier apply invocations: never twice, and once the loop
\* is over, once for every spec file of the patch.
C4_EachSpecAppliedOnce ==
    /\ \A p \in SpecFiles :
          Cardinality({k \in 1..Len(ApplyStarts) : ApplyStarts[k].cmd[3] = ApplyArg(p)}) <= 1
    /\ AfterLoop =>
          /\ Len(ApplyStarts) = Cardinality(SpecFiles)
          /\ Len(ApplyExits) = Cardinality(SpecFiles)
          /\ \A p \in SpecFiles :
                \E k \in 1..Len(ApplyStarts) : ApplyStarts[k].cmd[3] = ApplyArg(p)

C4_Witness ==
    /\ AfterLoop
    /\ Len(ApplyExits) = 2
    /\ ApplyExits[1].returncode # 0
    /\ ApplyExits[2].returncode = 0

\* the list discover_specs returns for the tree
Discovered ==
    discover_specs(PatchDir(Env),
                   CHOOSE w \in WalkOrders(PatchDir(Env), tree) : TRUE)

\* C5: the apply invocations follow the order of discover_specs, the sync
\* invocation starts only after the last apply invocation has exited, and no
\* apply invocation follows it.
C5_ApplyInDiscoveryOrderThenSync ==
    /\ Len(ApplyStarts) <= Len(Discovered)
    /\ \A j \in 1..Len(ApplyStarts) :
          ApplyStarts[j].cmd[3] = PathStr(RelativeTo(Discovered[j], ProjectRoot))
    /\ \A p, q \in 1..Len(events) :
          (events[p].ev = "start" /\ events[p].cmd[2] = S_sync /\ events[q].cmd[2] = S_apply)
              => q < p
    /\ SyncStarts # <<>> => Len(ApplyExits) = Len(Discovered)

C5_Witness ==
    /\ Len(SyncStarts) = 1
    /\ Len(ApplyStarts) = 2
    /\ ApplyStarts[1].cmd[3] = ApplyArg(F_a_b)
    /\ ApplyStarts[2].cmd[3] = ApplyArg(F_sub_b)

\* C6: the sync tool is invoked at most once, and in a finished run exactly once
\* if and only if the apply phase was reached, --skip-sync was not given and the
\* declared entity types have at least one sync target.
C6_SyncAtMostOnceAndOnlyWhenNeeded ==
    /\ Len(SyncStarts) <= 1
    /\ pc = "done" =>
          (Len(SyncStarts) = 1 <=> (ReachedApply /\ ~args.skip_sync /\ DeclaredTargets # {}))

C6_Witness ==
    /\ pc = "done"
    /\ ReachedApply
    /\ args.skip_sync
    /\ DeclaredTargets # {}
    /\ SyncStarts = <<>>

\* C7: when every apply invocation exits 0 and sync is invoked, the targets passed
\* to the sync tool are exactly the targets of the declared entity types, each
\* once, ascending by target name; and the run exits 0 if sync exits 0.
C7_SyncTargetsSortedUnion ==
    (AllAppliesOk /\ SyncStarts # <<>>) =>
        LET cmd == SyncStarts[1].cmd
            targets == SyncTargets(cmd)
        IN  /\ WellFormedSync(cmd)
            /\ Range(targets) = DeclaredTargets
            /\ \A j \in 1..(Len(targets) - 1) : StrLess(targets[j], targets[j + 1])
            /\ (pc = "done" /\ SyncExits[1].returncode = 0) => exit_code = 0

\* specs declaring items and evolutions: EquipmentEvolutionData, ItemData, exit 0
C7_Witness ==
    /\ pc = "done"
    /\ AllAppliesOk
    /\ Len(ApplyExits) = 2
    /\ SyncStarts # <<>>
    /\ SyncTargets(SyncStarts[1].cmd) = <<T_EquipmentEvolutionData, T_ItemData>>
    /\ exit_code = 0

\* the spec files whose apply invocation exited non-zero
FailedFiles ==
    {p \in SpecFiles :
        \E k \in 1..Len(ApplyExits) :
            ApplyExits[k].cmd[3] = ApplyArg(p) /\ ApplyExits[k].returncode # 0}

\* C8: the entity types of a spec count whether or not its apply invocation
\* succeeded: the targets passed to the sync tool include the targets of the
\* entity types declared by the specs that failed.
C8_FailedSpecEntitiesIncluded ==
    SyncStarts # <<>> =>
        \A p \in FailedFiles :
            TargetsOf(detect_entities(tree[p])) \subseteq Range(SyncTargets(SyncStarts[1].cmd))

\* a target that only failed specs declare is passed to the sync tool
C8_Witness ==
    /\ SyncStarts # <<>>
    /\ \E t \in Range(SyncTargets(SyncStarts[1].cmd)) :
          /\ \E p \in FailedFiles : t \in TargetsOf(detect_entities(tree[p]))
          /\ \A p \in SpecFiles \ FailedFiles : t \notin TargetsOf(detect_entities(tree[p]))

\* C9: the run and its twin, which differ only in --dry-run and get the same
\* answers from the external tools, are at the same point, have made the same
\* external invocations in the same order, identical but for the --dry-run
\* argument that exactly the dry run carries last, and have the same exit code.
C9_DryRunSameControlFlow ==
    LET dry == IF args.dry_run THEN events ELSE dryTwin.events
        wet == IF args.dry_run THEN dryTwin.events ELSE events
    IN  /\ dryTwin.pc = pc
        /\ dryTwin.exit_code = exit_code
        /\ Len(dry) = Len(wet)
        /\ \A k \in 1..Len(dry) :
              /\ dry[k].ev = wet[k].ev
              /\ dry[k].returncode = wet[k].returncode
              /\ dry[k].cmd = Append(wet[k].cmd, S_dry_run_opt)

C9_Witness ==
    /\ pc = "done"
    /\ Len(ApplyExits) = 2
    /\ ApplyExits[1].returncode # 0
    /\ Len(SyncExits) = 1
    /\ dryTwin.exit_code = 0

\* C10: with --dry-run every external invocation carries the --dry-run argument,
\* without it none does.
C10_DryRunForwarded ==
    \A k \in 1..Len(events) : HasDryRun(events[k].cmd) <=> args.dry_run

C10_Witness ==
    /\ args.dry_run
    /\ Len(ApplyStarts) = 2
    /\ Len(SyncStarts) = 1
    /\ HasDryRun(SyncStarts[1].cmd)

\* C11: the run and its twin, which differ only in --verbose and get the same
\* answers from the external tools, are at the same point, have made the same
\* external invocations with the same arguments in the same order, have the same
\* applied and failed counts and failed specs, compute the same sync targets and
\* have the same exit code: only what they print may differ.
C11_VerboseOnlyPrints ==
    /\ verbTwin.pc = pc
    /\ verbTwin.events = events
    /\ verbTwin.specs = specs
    /\ verbTwin.applied = applied
    /\ verbTwin.failed = failed
    /\ verbTwin.failed_specs = failed_specs
    /\ verbTwin.syncable_entities = syncable_entities
    /\ verbTwin.exit_code = exit_code

\* both runs are over after an applied spec, a failed spec and a sync, and what
\* they printed differs
C11_Witness ==
    /\ pc = "done"
    /\ applied = 1
    /\ failed = 1
    /\ Len(SyncExits) = 1
    /\ verbTwin.out # out

\* the references file gives no server_datasheet: it is missing, or holds no line
\* with that key and a value
NoDatasheet ==
    \/ ~refFile.exists
    \/ S_server_datasheet \notin DOMAIN load_references(refFile.text)

\* C12: when the references file is missing or gives no server_datasheet, the run
\* invokes no external tool at all and ends, before looking at the patch, with a
\* non-zero exit code.
C12_NoDatasheetStopsBeforeTools ==
    NoDatasheet
        => /\ events = <<>>
           /\ pc \in {"start", "done"}
           /\ specs = <<>>
           /\ pc = "done" => exit_code # 0

\* the file is there with keys in it, but no server_datasheet, and the run is over
C12_Witness ==
    /\ refFile.exists
    /\ DOMAIN load_references(refFile.text) # {}
    /\ NoDatasheet
    /\ pc = "done"
    /\ exit_code = 1
    /\ events = <<>>
    /\ DOMAIN tree # {}

\* C13: with a usable references file, when the patch directory does not exist or
\* holds no spec file, the run invokes neither the apply tool nor the sync tool,
\* and ends having printed the one error that names the directory, with exit
\* code 1.
C13_NoPatchOrNoSpecsExitsOne ==
    (~NoDatasheet /\ (~patchIsDir \/ SpecFiles = {}))
        => /\ events = <<>>
           /\ specs = <<>>
           /\ pc = "done"
                 => /\ exit_code = 1
                    /\ out = << <<IF patchIsDir THEN "error_no_specs"
                                  ELSE "error_patch_dir_not_found", PatchDir(Env)>> >>

\* the patch directory is there and holds a file, but no spec file
C13_Witness ==
    /\ ~NoDatasheet
    /\ patchIsDir
    /\ DOMAIN tree # {}
    /\ SpecFiles = {}
    /\ pc = "done"
    /\ exit_code = 1
    /\ out[1][1] = "error_no_specs"

\* the path of a discovered file relative to the patch directory, '/' between
\* its parts
RelPosix(p) == AsPosix(RelativeTo(p, PatchDir(Env)))

\* C14: whatever the order in which the file system yielded the files, and at the
\* first call as at every later one, discover_specs has returned the N files of
\* the tree whose name ends in .yaml and nothing else, each once, in strictly
\* ascending order of their '/'-separated path relative to the patch directory.
C14_DiscoverExactAndSorted ==
    pc = "sorted"
        => /\ Len(specs) = Cardinality(SpecFiles)
           /\ Range(specs) = {PatchDir(Env) \o p : p \in SpecFiles}
           /\ \A k \in 1..(Len(specs) - 1) :
                 StrLess(RelPosix(specs[k]), RelPosix(specs[k + 1]))

\* two spec files of the same name, one at the top and one in a subdirectory, next
\* to a file that is no spec
C14_Witness ==
    /\ pc = "sorted"
    /\ Len(specs) = 2
    /\ specs[1] = PatchDir(Env) \o F_a
    /\ specs[2] = PatchDir(Env) \o F_sub_a
    /\ F_note \in DOMAIN tree

\* where the mapper has put a detected name: with the sync targets, in the
\* server-only list, or nowhere because the table has no entry for it
AsTarget(k) ==
    /\ k \in MapKeys
    /\ MapGet(k) # None
    /\ MapGet(k) \in Range(syncable_entities)
InServerOnly(k) == k \in MapKeys /\ MapGet(k) = None /\ k \in Range(server_only_keys)
NoEntry(k) == k \notin MapKeys

\* C15: once the loop is over, every detected entity name is in exactly one of
\* three places: it stands for a concrete sync target, which is among the targets;
\* or the table maps it to None, and it is in the server-only list; or the table
\* has no entry for it. The targets come from the first kind only (None is never
\* a target), the server-only list holds the second kind only, and that list is
\* printed on a line of its own, apart from the targets.
C15_ThreeWaySplit ==
    AfterLoop
        => /\ \A k \in all_entity_keys :
                 /\ AsTarget(k) \/ InServerOnly(k) \/ NoEntry(k)
                 /\ ~(AsTarget(k) /\ k \in Range(server_only_keys))
                 /\ ~(NoEntry(k) /\ k \in Range(server_only_keys))
           /\ None \notin Range(syncable_entities)
           /\ \A t \in Range(syncable_entities) :
                 \E k \in all_entity_keys : AsTarget(k) /\ MapGet(k) = t
           /\ \A k \in Range(server_only_keys) : k \in all_entity_keys /\ InServerOnly(k)
           /\ Cardinality(Range(server_only_keys)) = Len(server_only_keys)
           /\ server_only_keys # <<>>
                 => \E j \in 1..Len(out) : out[j] = <<"server_only", server_only_keys>>
           /\ \A j \in 1..Len(out) :
                 out[j][1] = "entities_modified" => out[j][2] = syncable_entities

\* the specs declared names of both kinds, and the run is over
C15_Witness ==
    /\ pc = "done"
    /\ AfterLoop
    /\ Len(syncable_entities) = 2
    /\ server_only_keys # <<>>
    /\ \E k \in all_entity_keys : AsTarget(k)
    /\ \E k \in all_entity_keys : InServerOnly(k)

\* C16, as stated: the target set is empty exactly when no spec of the run
\* declared a syncable entity type, and whether the sync tool is invoked depends
\* on nothing but that emptiness. (With --skip-sync the code returns at line 239
\* before it looks at the set.)
C16_EmptinessIsSoleGate ==
    (pc = "done" /\ ReachedApply)
        => /\ syncable_entities = <<>> <=> DeclaredTargets = {}
           /\ SyncStarts # <<>> <=> syncable_entities # <<>>

\* C16, amended: the target set is empty exactly when no spec of the run, applied
\* or failed, declared a syncable entity type; with --skip-sync the sync tool is
\* never invoked, and without it the tool is invoked exactly when the set is not
\* empty.
C16_EmptinessGatesUnlessSkipped ==
    AfterLoop
        => /\ syncable_entities = <<>> <=> DeclaredTargets = {}
           /\ pc \in {"sync", "sync_wait"} => ~args.skip_sync /\ syncable_entities # <<>>
           /\ pc = "done"
                 => (SyncStarts # <<>> <=> ~args.skip_sync /\ syncable_entities # <<>>)

\* a run with --skip-sync and targets to sync is over, and no sync was invoked
C16_Witness ==
    /\ pc = "done"
    /\ args.skip_sync
    /\ syncable_entities # <<>>
    /\ DeclaredTargets # {}
    /\ SyncStarts = <<>>

\* the apply loop is over: what follows is the summary and the sync phase
ApplyPhaseOver == ReachedApply /\ pc \in {"loop", "sync", "sync_wait"} /\ idx >= Len(specs)

\* C17: from the end of the apply loop on, no step changes the applied count, the
\* failed count or the list of failed specs: neither the summary, nor the start
\* of the sync tool, nor its return, whatever its exit status.
C17_SyncLeavesApplyRecord ==
    [][ApplyPhaseOver
          => /\ applied' = applied
             /\ failed' = failed
             /\ failed_specs' = failed_specs
             /\ specs' = specs]_vars

\* sync has failed after two applied specs, and none of them counts as failed
C17_Witness ==
    /\ pc = "done"
    /\ Len(SyncExits) = 1
    /\ SyncExits[1].returncode # 0
    /\ applied = 2
    /\ failed = 0
    /\ failed_specs = <<>>

\* str without the white space at its ends
StrippedOf(str) ==
    IF \A k \in 1..Len(str) : str[k] \in Whitespace THEN <<>>
    ELSE LET first == CHOOSE i \in 1..Len(str) :
                          str[i] \notin Whitespace /\ \A j \in 1..(i - 1) : str[j] \in Whitespace
             last == CHOOSE i \in 1..Len(str) :
                         str[i] \notin Whitespace
                         /\ \A j \in (i + 1)..Len(str) : str[j] \in Whitespace
         IN  SubSeq(str, first, last)

\* C18: after apply_spec or run_sync has returned, it has reported success exactly
\* when the process exited with status 0; on any other status the message is
\* standard error without its surrounding white space if that is not empty, else
\* standard output without its surrounding white space if that is not empty, else
\* "Unknown error"; the message of a failure is never empty.
C18_SuccessIffZeroAndMessage ==
    result # NoResult
        => /\ ok <=> result.returncode = 0
           /\ ~ok => /\ output # <<>>
                     /\ output = IF StrippedOf(result.stderr) # <<>>
                                     THEN StrippedOf(result.stderr)
                                 ELSE IF StrippedOf(result.stdout) # <<>>
                                     THEN StrippedOf(result.stdout)
                                 ELSE S_Unknown_error

\* run_sync has returned from a process killed by a signal that wrote white space
\* only, on both streams: the message is the placeholder
C18_Witness ==
    /\ pc = "done"
    /\ events[Len(events)].cmd[2] = S_sync
    /\ result.returncode = -9
    /\ result.stderr # <<>>
    /\ result.stdout # <<>>
    /\ ~ok
    /\ output = S_Unknown_error

\* the external invocations that have started and not yet exited
InFlight ==
    {k \in 1..Len(events) :
        /\ events[k].ev = "start"
        /\ ~\E j \in (k + 1)..Len(events) :
               events[j].ev = "exit" /\ events[j].cmd = events[k].cmd}

\* C19: at every point of a run at most one external invocation is in flight, and
\* an invocation starts only when none is: the starts and the exits alternate,
\* each exit being that of the invocation started just before it, so the apply of
\* the next spec and the sync start after the exit of the apply before them.
C19_OneInvocationAtATime ==
    /\ Cardinality(InFlight) <= 1
    /\ \A k \in 1..Len(events) :
          IF k % 2 = 1 THEN events[k].ev = "start"
          ELSE events[k].ev = "exit" /\ events[k].cmd = events[k - 1].cmd
    /\ InFlight # {} <=> pc \in {"apply_wait", "sync_wait"}
    /\ pc = "done" => InFlight = {}

\* sync is in flight after two applies that have both exited
C19_Witness ==
    /\ pc = "sync_wait"
    /\ Len(ApplyExits) = 2
    /\ Len(SyncStarts) = 1
    /\ SyncExits = <<>>
    /\ Cardinality(InFlight) = 1

\* C20: a run that went through the apply loop and ended without invoking the
\* sync tool has printed, as the last thing before it exits, that sync was
\* skipped (with --skip-sync) or that there is nothing to sync (without it, the
\* target set being empty).
C20_NoSilentSkip ==
    (pc = "done" /\ ReachedApply /\ SyncStarts = <<>>)
        => /\ args.skip_sync \/ syncable_entities = <<>>
           /\ out # <<>>
           /\ out[Len(out)] = IF args.skip_sync THEN <<"sync_skipped">>
                              ELSE <<"nothing_to_sync">>

\* no --skip-sync, the specs declare server-only names alone: nothing to sync
C20_Witness ==
    /\ pc = "done"
    /\ ReachedApply
    /\ ~args.skip_sync
    /\ all_entity_keys # {}
    /\ syncable_entities = <<>>
    /\ events # <<>>
    /\ out[Len(out)] = <<"nothing_to_sync">>

\* the positions in what was printed of the lines of one kind
LinesOf(tag) == {j \in 1..Len(out) : out[j][1] = tag}

\* the apply invocations that have exited non-zero
FailedExits == {k \in 1..Len(ApplyExits) : ApplyExits[k].returncode # 0}

\* C21: at every point of a run there is one failure line for each apply
\* invocation that has exited non-zero, so the line of a failed spec is printed
\* before the apply of the next spec starts; once the loop is over the summary
\* has printed the applied count together with the number of failed specs; a run
\* that ends after a failed sync has printed the sync failure last; and a run
\* that ends after any failure has printed a report of it.
C21_FailuresReported ==
    /\ Cardinality(LinesOf("failed")) = Cardinality(FailedExits)
    /\ pc = "apply_wait" /\ FailedExits # {}
          => \E j \in LinesOf("failed") : \E k \in LinesOf("spec") :
                 j < k /\ out[k][2] = Len(ApplyStarts)
    /\ AfterLoop
          => /\ \E j \in LinesOf("applied_count") :
                    out[j] = <<"applied_count", applied, Cardinality(FailedExits)>>
             /\ \A j \in LinesOf("failed") : \A k \in LinesOf("applied_count") : j < k
    /\ (pc = "done" /\ \E k \in 1..Len(SyncExits) : SyncExits[k].returncode # 0)
          => out[Len(out)][1] = "sync_failed"
    /\ (pc = "done" /\ exit_code # 0)
          => out # <<>>
             /\ out[Len(out)][1] \in {"traceback", "error_patch_dir_not_found",
                                      "error_no_specs", "sync_failed"}

\* the first spec has failed, its failure line is printed, and the apply of the
\* second spec is in flight
C21_Witness ==
    /\ pc = "apply_wait"
    /\ Len(ApplyStarts) = 2
    /\ FailedExits = {1}
    /\ \E j \in LinesOf("failed") : j < Len(out)

\* the tool and the datasheet directory the loaded references give
ToolOfRefs ==
    IF S_dsl_cli \in DOMAIN refs THEN refs[S_dsl_cli]
    ELSE Join(ProjectRoot \o <<S_dsl_exe>>, OsSep)
DatasheetOfRefs == refs[S_server_datasheet]

\* "--dry-run" as the last argument, when the run is a dry run
DryRunTail == IF args.dry_run THEN <<S_dry_run_opt>> ELSE <<>>

\* C22: the k-th apply invocation has the arguments tool, "apply", the path of the
\* k-th discovered spec relative to the project root, "--path", the datasheet
\* directory, and then "--dry-run" exactly in a dry run; the sync invocation has
\* the arguments tool, "sync", "--config", the path of reforged/config/
\* sync-config.yaml under the project root, then "-e" and a target for each sync
\* target in their ascending order, and then "--dry-run" exactly in a dry run.
C22_ArgumentLists ==
    /\ \A k \in 1..Len(ApplyStarts) :
          ApplyStarts[k].cmd =
              <<ToolOfRefs, S_apply,
                Join(SubSeq(specs[k], Len(ProjectRoot) + 1, Len(specs[k])), OsSep),
                S_path_opt, DatasheetOfRefs>> \o DryRunTail
    /\ \A k \in 1..Len(SyncStarts) :
          LET cmd == SyncStarts[k].cmd
              n == Len(syncable_entities)
          IN  /\ Len(cmd) = 4 + 2 * n + Len(DryRunTail)
              /\ SubSeq(cmd, 1, 4) =
                     <<ToolOfRefs, S_sync, S_config_opt,
                       Join(ProjectRoot \o <<S_reforged, S_config, S_sync_config_yaml>>,
                            OsSep)>>
              /\ \A j \in 1..n :
                    cmd[4 + 2 * j - 1] = S_e_opt /\ cmd[4 + 2 * j] = syncable_entities[j]
              /\ \A j \in 1..(n - 1) : StrLess(syncable_entities[j], syncable_entities[j + 1])
              /\ SubSeq(cmd, 5 + 2 * n, Len(cmd)) = DryRunTail

\* a dry run with the tool named in the references file: two applies, one of a
\* spec in a subdirectory, and a sync of two targets
C22_Witness ==
    /\ args.dry_run
    /\ S_dsl_cli \in DOMAIN refs
    /\ Len(ApplyStarts) = 2
    /\ F_sub_b \in SpecFiles
    /\ Len(SyncStarts) = 1
    /\ Len(syncable_entities) = 2
    /\ Len(SyncStarts[1].cmd) = 9

\* name v, at once followed by ":", stands in the text at the start of a line:
\* at the start of the file or right after a line end
AtLineStart(text, v) ==
    \E p \in 1..Len(text) :
        /\ p = 1 \/ text[p - 1] \in {"\n", "\r"}
        /\ p + Len(v) <= Len(text)
        /\ \A j \in 1..Len(v) : text[p + j - 1] = v[j]
        /\ text[p + Len(v)] = ":"

\* C23: detect_entities has returned exactly the keys v of ENTITY_SYNC_MAP for
\* which some line of the file starts, at column 0, with v and then ":". So an
\* indented key is not among them, nor a name outside the table, and a line
\* itemStrings: gives itemStrings and not items.
C23_DetectExact ==
    pc = "detected"
        => /\ all_entity_keys = {v \in MapKeys : AtLineStart(tree[F_a], v)}
           /\ all_entity_keys \subseteq MapKeys
           /\ tree[F_a] = L_indented => all_entity_keys = {}
           /\ tree[F_a] = L_itemStrings => all_entity_keys = {K_itemStrings}

\* the file is the line itemStrings: followed by an indented key, and what came
\* back is itemStrings alone
C23_Witness ==
    /\ pc = "detected"
    /\ tree[F_a] = L_itemStrings \o L_indented
    /\ all_entity_keys = {K_itemStrings}

\* a line of the references file as the claim reads it: the line without the
\* white space around it, the place of its first "=", and what stands on the two
\* sides of it, each without the white space around it
LineBody(line) == StrippedOf(line)
FirstEquals(body) ==
    IF \E i \in 1..Len(body) : body[i] = "="
        THEN CHOOSE i \in 1..Len(body) :
                 body[i] = "=" /\ \A j \in 1..(i - 1) : body[j] # "="
    ELSE 0
KeyOf(line) == StrippedOf(SubSeq(LineBody(line), 1, FirstEquals(LineBody(line)) - 1))
ValueOf(line) ==
    StrippedOf(SubSeq(LineBody(line), FirstEquals(LineBody(line)) + 1,
                      Len(LineBody(line))))

\* the line is neither blank nor a comment, and gives a value after its first "="
IsEntry(line) ==
    /\ LineBody(line) # <<>>
    /\ LineBody(line)[1] # "#"
    /\ FirstEquals(LineBody(line)) > 0
    /\ ValueOf(line) # <<>>

\* the lines the file on disk is made of
RefLinesOnDisk == CHOOSE q \in RefLineSeqs : Join(q, <<>>) = refFile.text

\* C24: load_references has returned the mapping whose keys are the keys of the
\* key=value lines of the file that are neither blank nor, once the white space
\* before them is dropped, begin with "#"; key and value are what stands before
\* and after the first "=" of the line, without the white space around them; and
\* the value of a key is that of the last line that gives the key.
C24_ReferencesParsed ==
    pc = "loaded"
        => LET q == RefLinesOnDisk
               entries == {k \in 1..Len(q) : IsEntry(q[k])}
           IN  /\ DOMAIN refs = {KeyOf(q[k]) : k \in entries}
               /\ \A k \in entries :
                     (\A j \in entries : j > k => KeyOf(q[j]) # KeyOf(q[k]))
                         => refs[KeyOf(q[k])] = ValueOf(q[k])

\* the file gives the key a twice: the second value is kept
C24_Witness ==
    /\ pc = "loaded"
    /\ refFile.text = R_plain \o R_spaced
    /\ DOMAIN refs = {<<"a">>}
    /\ refs[<<"a">>] = <<"2">>

\* the names a spec of the run declares: the keys of the table that stand at the
\* start of a line of its file, followed by ":"
DeclaredBy(spec) ==
    {v \in MapKeys :
        AtLineStart(tree[SubSeq(spec, Len(PatchDir(Env)) + 1, Len(spec))], v)}

\* the number of specs whose entities have been detected: those the loop is done
\* with, and the one it is at, once it is past the detection
DetectedSoFar == IF pc \in {"apply", "apply_wait"} THEN idx + 1 ELSE idx

\* the entity set is the union of what the first DetectedSoFar specs declare, and
\* the spec of every apply invocation started is among them
C25_State ==
    ReachedApply
        => /\ all_entity_keys = UNION {DeclaredBy(specs[k]) : k \in 1..DetectedSoFar}
           /\ Len(ApplyStarts) <= DetectedSoFar
           /\ Len(ApplyExits) = idx
           /\ AfterLoop => DetectedSoFar = Len(specs)

\* C25: the entities of a spec are detected and merged into the entity set of the
\* run before the apply invocation of that spec starts; the entity set only
\* grows; and after the first i specs it is the union of what exactly those i
\* specs declare.
C25_DetectBeforeApplyAndGrow ==
    /\ []C25_State
    /\ [][all_entity_keys \subseteq all_entity_keys']_vars

\* the apply of the second spec is in flight, and the second spec has brought
\* names the first did not declare
C25_Witness ==
    /\ pc = "apply_wait"
    /\ Len(ApplyStarts) = 2
    /\ ~(DeclaredBy(specs[2]) \subseteq DeclaredBy(specs[1]))
    /\ ~(DeclaredBy(specs[1]) \subseteq DeclaredBy(specs[2]))
    /\ all_entity_keys = DeclaredBy(specs[1]) \cup DeclaredBy(specs[2])

\* the specs, by their place in the discovery order, whose apply invocation has
\* exited non-zero
FailedInOrder ==
    SelectSeq([k \in 1..Len(ApplyExits) |-> k], LAMBDA k : ApplyExits[k].returncode # 0)

\* C26: after the first i specs, applied is the number of apply invocations that
\* exited 0 and failed the number that did not, so applied + failed = i; the list
\* of failed specs has failed entries, the relative paths of the specs whose
\* apply exited non-zero, in discovery order; once the loop is over
\* applied + failed is the number of discovered specs, and that is what the
\* summary prints.
C26_CountingInvariant ==
    ReachedApply
        => /\ Len(ApplyExits) = idx
           /\ applied + failed = idx
           /\ failed = Len(FailedInOrder)
           /\ Len(failed_specs) = failed
           /\ \A j \in 1..Len(failed_specs) :
                 failed_specs[j] = RelPosix(specs[FailedInOrder[j]])
           /\ AfterLoop
                 => /\ applied + failed = Len(specs)
                    /\ Len(specs) = Cardinality(SpecFiles)
                    /\ \E j \in 1..Len(out) : out[j] = <<"applied_count", applied, failed>>

\* the loop is over two specs and both have failed
C26_Witness ==
    /\ AfterLoop
    /\ applied = 0
    /\ failed = 2
    /\ Len(failed_specs) = 2
    /\ failed_specs[1] # failed_specs[2]

\* some file of the patch has a line, at column 0, with a name and ":" that is
\* no key of the table
ForeignNameInTree ==
    \E p \in SpecFiles : AtLineStart(tree[p], <<"f", "o", "o">>)

\* C27: in every state every name of the entity set of the run is a key of
\* ENTITY_SYNC_MAP, whatever other names the files declare; so once the mapper
\* has run, every detected name either has its target among the sync targets or
\* is in the server-only list.
C27_NoUnmappedName ==
    /\ \A k \in all_entity_keys : \E j \in 1..Len(ENTITY_SYNC_MAP) : ENTITY_SYNC_MAP[j][1] = k
    /\ \A k \in dryTwin.all_entity_keys \cup verbTwin.all_entity_keys : k \in MapKeys
    /\ AfterLoop
          => \A k \in all_entity_keys :
                 \/ \E j \in 1..Len(ENTITY_SYNC_MAP) :
                       /\ ENTITY_SYNC_MAP[j][1] = k
                       /\ ENTITY_SYNC_MAP[j][2] \in Range(syncable_entities)
                 \/ k \in Range(server_only_keys)

\* a spec with a name outside the table has gone through the loop: the name is
\* not in the entity set, the names of the table next to it are
C27_Witness ==
    /\ pc = "done"
    /\ AfterLoop
    /\ ForeignNameInTree
    /\ Len(specs) = 1
    /\ Cardinality(all_entity_keys) = 3
    /\ <<"f", "o", "o">> \notin all_entity_keys

\* the references file is the single line server_datasheet= ; or it is a line for
\* another key followed by a line without "="
OnlyEmptyDatasheet == refFile.exists /\ refFile.text = RefsEmptyValue
NoDatasheetLine == refFile.exists /\ refFile.text = RefsNoKey

\* C28: a line with nothing after its "=", and a line without "=", give no entry:
\* from the file that holds only server_datasheet= the mapping is empty, and from
\* the other file it holds the other key alone. The run on the first file ends as
\* the run on a file without the key does: with the uncaught KeyError, exit code
\* 1, and no external tool invoked.
C28_EmptyValueIsAbsent ==
    (OnlyEmptyDatasheet \/ NoDatasheetLine)
        => /\ pc \in {"start", "done"}
           /\ events = <<>>
           /\ pc = "done"
                 => /\ DOMAIN refs = IF OnlyEmptyDatasheet THEN {} ELSE {S_dsl_cli}
                    /\ out = << <<"traceback", "KeyError">> >>
                    /\ exit_code = 1

\* the file holds only server_datasheet= , the patch has specs to apply, and the
\* run is over
C28_Witness ==
    /\ OnlyEmptyDatasheet
    /\ patchIsDir
    /\ SpecFiles # {}
    /\ pc = "done"
    /\ refs = <<>>
    /\ exit_code = 1

\* no run starts more apply invocations than the patch has specs, or applies a
\* spec twice, or starts the sync tool more than once
NoRetry ==
    /\ Len(ApplyStarts) <= Cardinality(SpecFiles)
    /\ \A i, j \in 1..Len(ApplyStarts) :
          ApplyStarts[i].cmd = ApplyStarts[j].cmd => i = j
    /\ Len(SyncStarts) <= 1
    /\ Len(events) <= 2 * (Cardinality(SpecFiles) + 1)

\* C29: when every external invocation returns, every run of main() comes to its
\* end with an exit code, 0 or 1, and on the way it starts at most one apply
\* invocation per spec of the patch, none for a spec it has applied before, and
\* at most one sync invocation.
C29_Terminates ==
    /\ <>(pc = "done" /\ exit_code \in {0, 1})
    /\ [](pc \in Positions)
    /\ [][pc' # pc]_vars
    /\ []NoRetry

\* a run over two specs has ended after two failed applies and a failed sync,
\* with as many invocations as the claim allows and no more
C29_Witness ==
    /\ pc = "done"
    /\ Cardinality(SpecFiles) = 2
    /\ Len(ApplyStarts) = 2
    /\ \A k \in 1..Len(ApplyExits) : ApplyExits[k].returncode # 0
    /\ Len(SyncStarts) = 1
    /\ SyncExits[1].returncode # 0
    /\ Len(events) = 6
====
